---- MODULE Spec2Model ----
(***************************************************************************)
(* A model of the analytics pipeline of dimasfr28/socnganalis:             *)
(*   - the shared SentimentProcessor of fastapi_app/main.py and its lazy   *)
(*     vectorizer fit (sentiment_processor.py), driven by request threads; *)
(*   - the lexicon classifiers (_fallback_sentiment, predict_emotion);     *)
(*   - the distribution part of the sentiment / emotion reports;           *)
(*   - the recommendation synthesizer's rule battery and priority sort;    *)
(*   - the aggregations of DataProcessor and the text normalizers;         *)
(*   - the dataset requests of main.py (upload, select, delete).           *)
(* Each part has its own specification; the variables of the other parts   *)
(* rest at their initial values.                                           *)
(***************************************************************************)
EXTENDS Integers, Sequences, FiniteSets, TLC

VARIABLES
    \* ---- storage and the shared SentimentProcessor (main.py:28) ----
    sentiment_processor, \* "None" before startup, "SentimentProcessor" after
    modelFile,           \* LinearSVM.pkl on storage: "absent" | "ok" | "corrupt"
    vecFile,             \* tfidf_vectorizer.pkl: "absent" | "corrupt" | a fit
    model,               \* self.model: "None" | "LinearSVM"
    vectorizer,          \* self.vectorizer: "None" | "unfitted" | a fit
    model_loaded,        \* self.model_loaded
    \* ---- one request thread per element of Requests ----
    pc,                  \* where each request stands in analyze_dataframe
    batch,               \* the batch (df) a request analyses
    existsSeen,          \* what os.path.exists returned to the request
    strategy,            \* what labelled the request's last classification
    raised,              \* whether the request's last call caught an exception
    callNo,              \* the ordinal of the analyze_dataframe call a request runs
    \* ---- history ----
    start,               \* artifacts found and strategy chosen by __init__
    calls,               \* analyze_dataframe calls started so far
    fitCalls,            \* ordinals of the calls whose fit_transform fitted the vectorizer
    sentiment_method,    \* per request: the metadata of the report made of its last analysis
    \* ---- a lexicon classifier applied to a text ----
    op,                  \* the function applied: "_fallback_sentiment" | "predict_emotion"
    input,               \* its argument
    label,               \* what it returned
    \* ---- a report made from a labelled dataframe ----
    column,              \* df['sentiment'] or df['emotion'], one label per row
    report,              \* what generate_*_report returned
    \* ---- one call of generate_recommendations ----
    sentiment_data,      \* the five reports it is given
    emotion_data,
    topic_data,
    engagement_data,
    peak_hours_data,
    result,              \* what it returned
    scores,              \* what one call of _calculate_performance_score returned
    \* ---- one call of DataProcessor.get_peak_activity_hours ----
    created_at,          \* the created_at column of replies.csv
    peak,                \* what the call returned
    skCalls,             \* the scikit-learn estimators it ran
    \* ---- one request GET /api/recommendations ----
    failures,            \* the engines that fail during the request
    response,            \* what the request returned
    \* ---- one aggregation over the posts and their replies ----
    tweet_df,            \* the rows of tweet.xlsx
    replies_df,          \* the conversation_id_str column of replies.csv
    answer,              \* the aggregation called and what it returned
    \* ---- a normalizer applied to a text ----
    doc,                 \* the text, raw and then as preprocess_text returned it
    before,              \* the text the last application was given
    engine,              \* the engine whose preprocess_text is applied
    applied,             \* how many times it was applied
    \* ---- the datasets on storage and the requests on them ----
    ACTIVE_DATASET,      \* main.py:61, "default" or the name of a dataset
    datasets,            \* the directory of each dataset name and its two files
    dpc,                 \* where each request on datasets stands
    dreq,                \* the operation a request runs and its arguments
    selected,            \* the dataset of the last select_dataset that succeeded
    sources,             \* the dataset each report of the last recommendations request was computed from
    \* ---- one dataframe of replies analysed and reported ----
    full_text,           \* the full_text column of the dataframe given to analyze_dataframe
    analysed             \* the rows of the dataframe analyze_dataframe returned

sentVars == <<sentiment_processor, modelFile, vecFile, model, vectorizer,
              model_loaded, pc, batch, existsSeen, strategy, raised, callNo,
              start, calls, fitCalls>>

metaVars == <<sentiment_method>>

pipeVars == <<full_text, analysed>>

lexVars == <<op, input, label>>

repVars == <<column, report>>

recVars == <<sentiment_data, emotion_data, topic_data, engagement_data,
             peak_hours_data, result, scores>>

peakVars == <<created_at, peak, skCalls>>

opVars == <<failures, response>>

aggVars == <<tweet_df, replies_df, answer>>

normVars == <<doc, before, engine, applied>>

dataVars == <<ACTIVE_DATASET, datasets, dpc, dreq, selected, sources>>

vars == <<sentVars, lexVars, repVars, recVars, peakVars, opVars, aggVars,
          normVars, dataVars, metaVars, pipeVars>>

\* what the steps of each part leave alone
notSentVars == <<lexVars, repVars, recVars, peakVars, opVars, aggVars, normVars,
                dataVars, metaVars,
                pipeVars>>
notLexVars == <<sentVars, repVars, recVars, peakVars, opVars, aggVars, normVars,
                dataVars, metaVars,
                pipeVars>>
notRepVars == <<sentVars, lexVars, recVars, peakVars, opVars, aggVars, normVars,
                dataVars, metaVars,
                pipeVars>>
notRecVars == <<sentVars, lexVars, repVars, peakVars, opVars, aggVars, normVars,
                dataVars, metaVars,
                pipeVars>>
notAggVars == <<sentVars, lexVars, repVars, recVars, peakVars, opVars, normVars,
                dataVars, metaVars,
                pipeVars>>
notPeakVars == <<sentVars, lexVars, repVars, recVars, opVars, aggVars, normVars,
                dataVars, metaVars,
                pipeVars>>
notNormVars == <<sentVars, lexVars, repVars, recVars, peakVars, opVars, aggVars,
                dataVars, metaVars,
                pipeVars>>
notMetaVars == <<lexVars, repVars, recVars, peakVars, opVars, aggVars, normVars,
                 dataVars,
                pipeVars>>
notDataVars == <<sentVars, lexVars, repVars, recVars, peakVars, opVars, aggVars,
                 normVars, metaVars,
                pipeVars>>

-----------------------------------------------------------------------------
(* Bounds *)

\* request threads of the server's thread pool
NRequests == 2
\* analyze_dataframe calls made in one process lifetime
MaxCalls == 3

Requests == 1..NRequests

\* A batch is named by what is left of it after the empty cleaned texts are
\* removed (sentiment_processor.py:259): nothing, or one of two contents.
Batches == {"empty", "b1", "b2"}

\* What a vectorizer artifact or object can hold: the fit made at training
\* time, or a fit made by fit_transform on a batch.
Fits == {"trained"} \cup (Batches \ {"empty"})

-----------------------------------------------------------------------------
(* SentimentProcessor.__init__ / _load_model / _create_new_vectorizer *)

\* _load_model, sentiment_processor.py:49-87: the fields after construction,
\* as a function of what is on storage.
\* :53-58 the classifier; a joblib.load that raises ends in the except clause
\* at :78-87, which leaves all three fields at None / None / False.
\* (a load that treats an unreadable classifier file as loaded)
LoadedModelUnchecked(mf) == IF mf # "absent" THEN "LinearSVM" ELSE "None"

LoadedModel(mf) == IF mf = "ok" THEN "LinearSVM" ELSE "None"

\* :64-76 reached only with the classifier loaded (return at :58).
LoadedVectorizer(mf, vf) ==
    IF LoadedModel(mf) = "None" THEN "None"
    ELSE IF vf \in Fits THEN vf               \* joblib.load at :67
    ELSE "unfitted"                           \* _create_new_vectorizer at :73, :76

\* (a flag set by the vectorizer file alone)
LoadedFlagWithoutModel(mf, vf) == vf \in Fits

\* :69, and False everywhere else (:32, :47, :87)
LoadedFlag(mf, vf) == LoadedModel(mf) # "None" /\ vf \in Fits

\* The strategy a classification is labelled by right after construction.
StrategyOf(ml, m, v) ==
    IF ml /\ m # "None" /\ v # "None" THEN "model" ELSE "fallback"

\* load_sentiment_processor, main.py:30-42 (startup hook).
load_sentiment_processor ==
    /\ sentiment_processor = "None"
    /\ sentiment_processor' = "SentimentProcessor"
    /\ model' = LoadedModel(modelFile)
    /\ vectorizer' = LoadedVectorizer(modelFile, vecFile)
    /\ model_loaded' = LoadedFlag(modelFile, vecFile)
    /\ start' = [model |-> modelFile, vec |-> vecFile,
                 strategy |-> StrategyOf(LoadedFlag(modelFile, vecFile),
                                         LoadedModel(modelFile),
                                         LoadedVectorizer(modelFile, vecFile))]
    /\ UNCHANGED <<modelFile, vecFile, pc, batch, existsSeen, strategy, raised,
                   callNo, calls, fitCalls>>
    /\ UNCHANGED notSentVars

-----------------------------------------------------------------------------
(* SentimentProcessor.analyze_dataframe, one step per shared access *)

\* sentiment_processor.py:262, the guard of the lazy-fit branch.
NeedsFit == ~model_loaded /\ model # "None" /\ vectorizer # "None"

\* The statements of the lazy-fit branch, :263-276.
FitSection == {"fit", "exists", "dump", "predict", "set_loaded"}

\* the metadata of a request that has made no report
NoMetadata == [call |-> 0, labels |-> "none", sentiment_method |-> "none"]

\* main.py:314-317 and :718-719: the handler that called analyze_dataframe
\* calls generate_sentiment_report next; the request has done so
Reported(r) == sentiment_method[r].call = callNo[r]

\* main.py:314 / main.py:718: a request calls analyze_dataframe(df); :256-259
\* clean the texts and drop the empty ones, which touches no shared state.
AnalyzeCall(r) ==
    /\ sentiment_processor # "None"
    /\ pc[r] = "idle"
    /\ Reported(r)
    /\ calls < MaxCalls
    /\ \E b \in Batches : batch' = [batch EXCEPT ![r] = b]
    /\ calls' = calls + 1
    /\ callNo' = [callNo EXCEPT ![r] = calls + 1]
    /\ pc' = [pc EXCEPT ![r] = "check"]
    /\ strategy' = [strategy EXCEPT ![r] = "none"]
    /\ raised' = [raised EXCEPT ![r] = FALSE]
    /\ existsSeen' = [existsSeen EXCEPT ![r] = FALSE]
    /\ UNCHANGED <<sentiment_processor, modelFile, vecFile, model, vectorizer,
                   model_loaded, start, fitCalls>>
    /\ UNCHANGED notSentVars

\* :262 and, in the else branch, :286.
CheckFitted(r) ==
    /\ pc[r] = "check"
    /\ pc' = [pc EXCEPT ![r] = IF NeedsFit THEN "fit" ELSE "check_loaded"]
    /\ UNCHANGED <<sentiment_processor, modelFile, vecFile, model, vectorizer,
                   model_loaded, batch, existsSeen, strategy, raised, callNo,
                   start, calls, fitCalls>>
    /\ UNCHANGED notSentVars

\* (the test at :286 inverted)
CheckLoadedInverted(r) ==
    /\ pc[r] = "check_loaded"
    /\ pc' = [pc EXCEPT ![r] = IF model_loaded THEN "fallback" ELSE "transform"]
    /\ UNCHANGED <<sentiment_processor, modelFile, vecFile, model, vectorizer,
                   model_loaded, batch, existsSeen, strategy, raised, callNo,
                   start, calls, fitCalls>>
    /\ UNCHANGED notSentVars

CheckLoaded(r) ==
    /\ pc[r] = "check_loaded"
    /\ pc' = [pc EXCEPT ![r] = IF model_loaded THEN "transform" ELSE "fallback"]
    /\ UNCHANGED <<sentiment_processor, modelFile, vecFile, model, vectorizer,
                   model_loaded, batch, existsSeen, strategy, raised, callNo,
                   start, calls, fitCalls>>
    /\ UNCHANGED notSentVars

\* What the except clause at :280-283 does: label by the lexicon.
Except(r) ==
    /\ strategy' = [strategy EXCEPT ![r] = "fallback"]
    /\ raised' = [raised EXCEPT ![r] = TRUE]
    /\ pc' = [pc EXCEPT ![r] = "idle"]

\* :265 fit_transform on the request's batch. It leaves the shared vectorizer
\* fitted on that batch; on a batch with no text it raises (empty vocabulary).
FitOk(r) ==
    /\ pc[r] = "fit"
    /\ batch[r] # "empty"
    /\ vectorizer' = batch[r]
    /\ fitCalls' = fitCalls \cup {callNo[r]}
    /\ pc' = [pc EXCEPT ![r] = "exists"]
    /\ UNCHANGED <<sentiment_processor, modelFile, vecFile, model, model_loaded,
                   batch, existsSeen, strategy, raised, callNo, start, calls>>
    /\ UNCHANGED notSentVars

FitRaises(r) ==
    /\ pc[r] = "fit"
    /\ Except(r)
    /\ UNCHANGED <<sentiment_processor, modelFile, vecFile, model, vectorizer,
                   model_loaded, batch, existsSeen, callNo, start, calls,
                   fitCalls>>
    /\ UNCHANGED notSentVars

\* :268 os.path.exists(self.vectorizer_path)
ExistsCheck(r) ==
    /\ pc[r] = "exists"
    /\ existsSeen' = [existsSeen EXCEPT ![r] = vecFile # "absent"]
    /\ pc' = [pc EXCEPT ![r] = IF vecFile # "absent" THEN "predict" ELSE "dump"]
    /\ UNCHANGED <<sentiment_processor, modelFile, vecFile, model, vectorizer,
                   model_loaded, batch, strategy, raised, callNo, start, calls,
                   fitCalls>>
    /\ UNCHANGED notSentVars

\* :269 joblib.dump(self.vectorizer, self.vectorizer_path): the file receives
\* the shared vectorizer as it is at this moment.
Dump(r) ==
    /\ pc[r] = "dump"
    /\ vecFile' = vectorizer
    /\ pc' = [pc EXCEPT ![r] = "predict"]
    /\ UNCHANGED <<sentiment_processor, modelFile, model, vectorizer,
                   model_loaded, batch, existsSeen, strategy, raised, callNo,
                   start, calls, fitCalls>>
    /\ UNCHANGED notSentVars

\* :273-274 self.model.predict(X); df['sentiment'] = predictions
PredictOk(r) ==
    /\ pc[r] = "predict"
    /\ strategy' = [strategy EXCEPT ![r] = "model"]
    /\ pc' = [pc EXCEPT ![r] = "set_loaded"]
    /\ UNCHANGED <<sentiment_processor, modelFile, vecFile, model, vectorizer,
                   model_loaded, batch, existsSeen, raised, callNo, start, calls,
                   fitCalls>>
    /\ UNCHANGED notSentVars

\* :273 raises (the classifier expects the feature count of its training
\* vocabulary, the fresh fit has its own): :280-283.
PredictRaises(r) ==
    /\ pc[r] = "predict"
    /\ Except(r)
    /\ UNCHANGED <<sentiment_processor, modelFile, vecFile, model, vectorizer,
                   model_loaded, batch, existsSeen, callNo, start, calls,
                   fitCalls>>
    /\ UNCHANGED notSentVars

\* :276 self.model_loaded = True, then return df
SetLoaded(r) ==
    /\ pc[r] = "set_loaded"
    /\ model_loaded' = TRUE
    /\ pc' = [pc EXCEPT ![r] = "idle"]
    /\ UNCHANGED <<sentiment_processor, modelFile, vecFile, model, vectorizer,
                   batch, existsSeen, strategy, raised, callNo, start, calls,
                   fitCalls>>
    /\ UNCHANGED notSentVars

\* :287-291 transform and predict with the loaded model (either raises on a
\* field that is None, transform also on a vectorizer never fitted)
TransformOk(r) ==
    /\ pc[r] = "transform"
    /\ model # "None"
    /\ vectorizer \in Fits
    /\ strategy' = [strategy EXCEPT ![r] = "model"]
    /\ pc' = [pc EXCEPT ![r] = "idle"]
    /\ UNCHANGED <<sentiment_processor, modelFile, vecFile, model, vectorizer,
                   model_loaded, batch, existsSeen, raised, callNo, start, calls,
                   fitCalls>>
    /\ UNCHANGED notSentVars

\* :292-294
TransformRaises(r) ==
    /\ pc[r] = "transform"
    /\ Except(r)
    /\ UNCHANGED <<sentiment_processor, modelFile, vecFile, model, vectorizer,
                   model_loaded, batch, existsSeen, callNo, start, calls,
                   fitCalls>>
    /\ UNCHANGED notSentVars

\* :296
Fallback(r) ==
    /\ pc[r] = "fallback"
    /\ strategy' = [strategy EXCEPT ![r] = "fallback"]
    /\ pc' = [pc EXCEPT ![r] = "idle"]
    /\ UNCHANGED <<sentiment_processor, modelFile, vecFile, model, vectorizer,
                   model_loaded, batch, existsSeen, raised, callNo, start, calls,
                   fitCalls>>
    /\ UNCHANGED notSentVars

\* predict_sentiment, sentiment_processor.py:182-206, on one text: the lexicon
\* when the guard at :192 fails or when transform / predict raises (:204-206).
predict_sentiment(r) ==
    /\ sentiment_processor # "None"
    /\ pc[r] = "idle"
    /\ Reported(r)
    /\ \E raises \in BOOLEAN :
          LET viaModel == model_loaded /\ model # "None" /\ vectorizer # "None"
          IN  /\ raises => viaModel
              /\ (viaModel /\ vectorizer \notin Fits) => raises
              /\ strategy' = [strategy EXCEPT ![r] =
                     IF viaModel /\ ~raises THEN "model" ELSE "fallback"]
              /\ raised' = [raised EXCEPT ![r] = raises]
    /\ UNCHANGED <<sentiment_processor, modelFile, vecFile, model, vectorizer,
                   model_loaded, pc, batch, existsSeen, callNo, start, calls,
                   fitCalls>>
    /\ UNCHANGED notSentVars

\* sentiment_processor.py:433, in generate_sentiment_report called at
\* main.py:317 / :719 on the dataframe analyze_dataframe returned:
\* sentiment_method = 'LinearSVM' if self.model_loaded else 'rule_based_fallback'
ReportMetadata(r) ==
    /\ pc[r] = "idle"
    /\ ~Reported(r)
    /\ sentiment_method' = [sentiment_method EXCEPT ![r] =
           [call |-> callNo[r], labels |-> strategy[r],
            sentiment_method |-> IF model_loaded THEN "LinearSVM"
                                 ELSE "rule_based_fallback"]]
    /\ UNCHANGED sentVars
    /\ UNCHANGED notMetaVars

Step(r) ==
    \/ ReportMetadata(r)
    \/ AnalyzeCall(r)
    \/ CheckFitted(r)
    \/ CheckLoaded(r)
    \/ FitOk(r)
    \/ FitRaises(r)
    \/ ExistsCheck(r)
    \/ Dump(r)
    \/ PredictOk(r)
    \/ PredictRaises(r)
    \/ SetLoaded(r)
    \/ TransformOk(r)
    \/ TransformRaises(r)
    \/ Fallback(r)
    \/ predict_sentiment(r)

-----------------------------------------------------------------------------
(* Texts and the string operations of the lexicon classifiers *)

\* words per text
MaxWords == 2

\* The words the texts of the model are made of: triggers of either lexicon,
\* a word that holds a trigger inside ("stop", "sukacita"), the two halves of
\* a two-word trigger, a trigger written twice in its list ("serius"), a word
\* that is no trigger, and one with a capital letter.
Vocab == {"senang", "marah", "amazing", "bagus", "Bagus", "jelek", "stop",
          "terima", "kasih", "serius", "sukacita", "itu"}

RECURSIVE JoinWords(_)
JoinWords(ws) ==
    IF ws = <<>> THEN ""
    ELSE IF Len(ws) = 1 THEN ws[1]
    ELSE ws[1] \o " " \o JoinWords(Tail(ws))

\* Cleaned texts (words joined by single spaces), and one text of blanks.
Texts ==
    {JoinWords(ws) : ws \in UNION {[1..n -> Vocab] : n \in 0..MaxWords}} \cup {" "}

\* str.lower() on one character
LowerChar(c) ==
    CASE c = "A" -> "a" [] c = "B" -> "b" [] c = "C" -> "c" [] c = "D" -> "d"
      [] c = "E" -> "e" [] c = "F" -> "f" [] c = "G" -> "g" [] c = "H" -> "h"
      [] c = "I" -> "i" [] c = "J" -> "j" [] c = "K" -> "k" [] c = "L" -> "l"
      [] c = "M" -> "m" [] c = "N" -> "n" [] c = "O" -> "o" [] c = "P" -> "p"
      [] c = "Q" -> "q" [] c = "R" -> "r" [] c = "S" -> "s" [] c = "T" -> "t"
      [] c = "U" -> "u" [] c = "V" -> "v" [] c = "W" -> "w" [] c = "X" -> "x"
      [] c = "Y" -> "y" [] c = "Z" -> "z" [] OTHER -> c

\* str.lower()
RECURSIVE Lower(_)
Lower(s) ==
    IF Len(s) = 0 THEN ""
    ELSE LowerChar(SubSeq(s, 1, 1)) \o Lower(SubSeq(s, 2, Len(s)))

\* str.strip() of blanks
RECURSIVE Strip(_)
Strip(s) ==
    IF Len(s) = 0 THEN ""
    ELSE IF SubSeq(s, 1, 1) = " " THEN Strip(SubSeq(s, 2, Len(s)))
    ELSE IF SubSeq(s, Len(s), Len(s)) = " " THEN Strip(SubSeq(s, 1, Len(s) - 1))
    ELSE s

\* Python's `p in t` on strings
In(p, t) ==
    \E i \in 1..(Len(t) - Len(p) + 1) : SubSeq(t, i, i + Len(p) - 1) = p

-----------------------------------------------------------------------------
(* SentimentProcessor._fallback_sentiment *)

\* sentiment_processor.py:219-223
positive_words == <<
    "bagus", "baik", "senang", "puas", "cepat", "lancar", "mantap", "oke",
    "terima kasih", "thanks", "good", "fast", "smooth", "great", "sukses",
    "mantul", "keren", "top", "recommended", "hebat", "memuaskan" >>

\* sentiment_processor.py:225-231
negative_words == <<
    "lambat", "lemot", "jelek", "buruk", "kecewa", "marah", "kesal",
    "gangguan", "error", "rusak", "masalah", "complain", "komplain", "bad",
    "slow", "worst", "terrible", "parah", "payah", "down", "los", "mati",
    "putus", "lag", "kaga", "gak jalan", "ga bisa", "kendala", "keluhan",
    "mengecewakan", "zonk", "lelet", "anjlok" >>

\* sum(1 for word in words if word in text_lower), :234-235
RECURSIVE CountIn(_, _)
CountIn(words, text_lower) ==
    IF words = <<>> THEN 0
    ELSE (IF In(Head(words), text_lower) THEN 1 ELSE 0)
         + CountIn(Tail(words), text_lower)

\* (the comparisons of :237-239 made with >= instead of >)
FallbackSentimentNotStrict(text) ==
    LET text_lower == Lower(text)
        pos_count == CountIn(positive_words, text_lower)
        neg_count == CountIn(negative_words, text_lower)
    IN  IF neg_count >= pos_count THEN "negative"
        ELSE IF pos_count >= neg_count THEN "positive"
        ELSE "neutral"

\* sentiment_processor.py:208-242
_fallback_sentiment(text) ==
    LET text_lower == Lower(text)
        pos_count == CountIn(positive_words, text_lower)
        neg_count == CountIn(negative_words, text_lower)
    IN  IF neg_count > pos_count THEN "negative"
        ELSE IF pos_count > neg_count THEN "positive"
        ELSE "neutral"

-----------------------------------------------------------------------------
(* EmotionProcessor.predict_emotion *)

\* emotion_processor.py:20-232, self.emotion_lexicons: the lists as written,
\* an entry written twice being there twice.
emotion_lexicons == [
  joy |-> <<
    "senang", "gembira", "bahagia", "suka", "riang", "ceria", "sumringah",
    "girang", "sukacita", "bergembira", "bersuka", "riang gembira", "puas",
    "memuaskan", "terpuaskan", "satisfying", "satisfied", "content", "lega",
    "tenang", "nyaman", "aman", "damai", "tenteram", "mantap", "mantul",
    "mantab", "josss", "jos", "joss", "juara", "super", "bagus", "keren",
    "hebat", "top", "terbaik", "maksimal", "optimal", "excellent", "good",
    "great", "awesome", "fantastic", "wonderful", "amazing", "outstanding",
    "brilliant", "superb", "magnificent", "sukses", "berhasil", "success",
    "successful", "winning", "win", "berjaya", "menang", "lancar", "mulus",
    "sempurna", "perfect", "cepat", "kilat", "instant", "responsif", "fast",
    "quick", "rapid", "efisien", "smooth", "lancar jaya", "terima kasih",
    "terimakasih", "makasih", "thanks", "thank you", "appreciate",
    "grateful", "syukur", "alhamdulillah", "terima", "recommended",
    "recommend", "terpercaya", "trusted", "reliable", "worth it", "worthed",
    "oke banget", "ok banget", "cocok", "unggul", "superior", "terdepan",
    "nomor satu", "no 1", "number one", "profesional", "berkualitas",
    "kualitas", "quality", "premium", "seneng", "happy", "happiness",
    "cheerful", "joyful", "delighted", "seru", "asik", "asyik",
    "menyenangkan", "fun", "enjoyable", "love", "suka banget", "cinta",
    "favorit", "favorite", "fav", "terfavorit", "kesukaan", "idola", "kagum",
    "mengagumkan", "impressive", "impressed", "inspiring", "memukau",
    "menakjubkan", "spektakuler", "spectacular", "stabil", "stable",
    "konsisten", "consistent", "terjamin", "solid", "kuat", "tangguh",
    "handal" >>,
  anger |-> <<
    "marah", "angry", "anger", "rage", "furious", "mad", "murka", "geram",
    "mengamuk", "berang", "gusar", "kesal", "jengkel", "dongkol", "sebal",
    "sebel", "annoyed", "annoying", "menyebalkan", "menjengkelkan",
    "irritated", "upset", "gondok", "gemes", "geregetan", "bete", "bt",
    "benci", "hate", "hatred", "muak", "jijay", "antipati", "tidak suka",
    "ga suka", "gak suka", "nggak suka", "bangsat", "sialan", "kampret",
    "brengsek", "keparat", "bajingan", "fuck", "shit", "damn", "hell",
    "asshole", "bitch", "anjing", "anjir", "anjay", "anjrit", "anj", "ajg",
    "anjg", "goblok", "tolol", "bodoh", "idiot", "stupid", "dungu", "bego",
    "tai", "kontol", "memek", "pepek", "jancuk", "jancok",
    "tidak profesional", "ga profesional", "gak profesional",
    "kurang profesional", "unprofessional", "amatir", "amateur", "asal",
    "sembarangan", "acak", "ngaco", "kacau", "chaos", "payah", "parah",
    "teruk", "jelek banget", "buruk sekali", "worst", "terrible", "horrible",
    "awful", "disgusting", "menyebalkan", "mengecewakan", "disappointing",
    "protes", "complain", "komplain", "keluhkan", "report", "laporkan",
    "somasi", "tuntut", "gugat", "boikot", "boycott", "blacklist",
    "batalkan", "cancel", "unsubscribe", "berhenti", "stop", "jangan lagi",
    "kapok", "curang", "tipu", "bohong", "penipuan", "scam", "fraud", "nipu",
    "menipu", "penipu", "pembohong", "liar", "hoax" >>,
  sadness |-> <<
    "sedih", "sad", "sadness", "sorrow", "grief", "unhappy", "duka", "pilu",
    "nelangsa", "sendu", "murung", "gloomy", "kecewa", "disappointed",
    "disappointing", "mengecewakan", "zonk", "gagal", "failure", "failed",
    "fail", "hancur", "broken", "terpuruk", "jatuh", "down", "depresi",
    "depressed", "depression", "hopeless", "putus asa", "frustasi",
    "frustrated", "frustrasi", "stress", "tertekan", "galau", "bingung",
    "confused", "lost", "tersesat", "ragu", "doubt", "uncertain",
    "tidak yakin", "menyesal", "regret", "rugi", "loss", "sia sia",
    "percuma", "sayang", "kasihan", "pity", "pathetic", "menyedihkan",
    "capek", "lelah", "tired", "exhausted", "burnout", "jenuh", "bosan",
    "bored", "boring", "membosankan", "penat", "letih", "lemas", "lemah",
    "weak", "menyerah", "give up", "resign", "pasrah", "tamat", "berakhir",
    "end", "ending", "selesai sudah", "habis", "rindu", "miss", "missing",
    "hilang", "kehilangan", "lost", "pergi", "gone", "ditinggal",
    "abandoned", "menderita", "suffering", "sakit", "pain", "painful",
    "tersiksa", "torture", "sengsara", "misery", "miserable", "tragis",
    "tragic", "tragedy", "tragedi", "naas", "malang", "sial", "unlucky",
    "nasib buruk" >>,
  fear |-> <<
    "takut", "fear", "scared", "afraid", "frightened", "terrified", "ngeri",
    "seram", "menakutkan", "scary", "spooky", "creepy", "khawatir",
    "worried", "worry", "concern", "concerned", "cemas", "anxious",
    "anxiety", "gelisah", "resah", "risau", "was was", "was-was", "waswas",
    "hawatir", "panik", "panic", "kalut", "kacau", "bingung panik",
    "deg degan", "deg-degan", "tegang", "tense", "nervous", "grogi", "gugup",
    "gemetar", "trembling", "bahaya", "dangerous", "danger", "berbahaya",
    "unsafe", "berisiko", "risky", "risk", "rawan", "rawan bahaya",
    "ancaman", "threat", "mengancam", "threatening", "tidak aman", "ga aman",
    "gak aman", "insecure", "rawan", "rentan", "vulnerable", "lemah",
    "horor", "horror", "menyeramkan", "mengerikan", "horrifying",
    "menakutkan", "frightening", "terrifying", "trauma", "traumatic",
    "fobia", "phobia", "nightmare", "mimpi buruk", "ketakutan", "paranoid",
    "paranoia", "ragu takut", "takut takut", "was was", "jangan jangan",
    "mudah mudahan tidak", "semoga tidak", "hopefully not", "shock",
    "shocked", "kaget takut", "terkejut takut", "oh no", "oh tidak", "aduh",
    "ampun", "tolong", "jangan sampai", "mudah mudahan aman", "hati hati",
    "waspada", "alert", "awas", "careful", "be careful" >>,
  surprise |-> <<
    "kaget", "terkejut", "surprised", "surprise", "shocking", "shocked",
    "shock", "mengejutkan", "mencengangkan", "heran", "terheran", "wonder",
    "wondering", "curious", "penasaran", "aneh", "strange", "weird", "odd",
    "takjub", "amazed", "amazing", "awe", "awesome", "menakjubkan",
    "memukau", "impressive", "spectacular", "tidak percaya", "ga percaya",
    "gak percaya", "unbelievable", "incredible", "serius", "serious",
    "beneran", "really", "masa", "masa sih", "apa iya", "benarkah",
    "is it true", "unexpected", "tiba tiba", "tiba-tiba", "mendadak",
    "terduga", "tidak terduga", "diluar dugaan", "ternyata", "rupanya",
    "oh ternyata", "oh rupanya", "wow", "woah", "waw", "wih", "wiw", "wah",
    "weh", "gila", "gile", "gokil", "gilak", "gilaaa", "anjir", "anjay",
    "anjrit", "astaga", "astagfirullah", "masyaallah", "subhanallah",
    "ya allah", "ya ampun", "serius", "serius nih", "beneran", "kok bisa",
    "gimana bisa", "how come", "what", "apa", "hah", "lho", "loh", "lo",
    "eh", "eeh", "heh", "ha", "what the", "omg", "oh my god", "oh my", "god",
    "demi apa", "demi tuhan", "ampun dah", "asli", "bener bener",
    "plot twist", "twist", "balik", "kebalikan", "berlawanan", "kontras",
    "berbeda", "beda banget" >>,
  disgust |-> <<
    "jijik", "jijay", "disgusting", "disgust", "gross", "ew", "eww", "yuck",
    "yikes", "ugh", "muak", "mual", "enek", "eneg", "muntah", "nauseous",
    "pengen muntah", "mau muntah", "bikin mual", "bikin muntah", "jorok",
    "kotor", "dirty", "filthy", "najis", "cemar", "busuk", "bau", "smelly",
    "stink", "basi", "rotten", "menjijikkan", "hina", "rendah", "low",
    "despicable", "memalukan", "shameful", "shame", "embarrassing", "buruk",
    "jelek", "ugly", "bad", "terrible", "awful", "horrible", "worst",
    "terburuk", "paling jelek", "sampah", "trash", "garbage", "rubbish",
    "waste", "menyeramkan", "mengerikan", "horrifying", "horrific",
    "menakutkan", "disturbing", "disturb", "mengganggu", "keji", "kejam",
    "cruel", "sadis", "sadistic", "biadab", "brutal", "kasar", "harsh",
    "rough", "tolak", "reject", "menolak", "tidak mau", "ga mau", "ogah",
    "males", "kapok", "jangan", "no way", "parah", "parah banget", "teruk",
    "buruk sekali", "ancur", "hancur", "destroyed", "rusak parah", "tai",
    "taik", "shit", "crap", "poop", "babi", "pig", "swine", "bangkai",
    "sampah masyarakat" >>
]

\* The order of the keys of self.emotion_lexicons, which is the order in
\* which a dict is iterated (emotion_processor.py:21, :61, :96, :130, :165, :199).
Emotions == << "joy", "anger", "sadness", "fear", "surprise", "disgust" >>

\* emotion_processor.py:466-471, what one entry adds to its category's score
WordScore(word, text_lower) ==
    IF In(word, text_lower)
    THEN IF In(" " \o word \o " ", " " \o text_lower \o " ") THEN 2 ELSE 1
    ELSE 0

\* :465-471, the inner loop over one category's entries: the sum of what the
\* entries words[lo..hi] add (summed by halves, which keeps the evaluation
\* shallow on lists of a hundred entries and more)
RECURSIVE ScoreRange(_, _, _, _)
ScoreRange(words, text_lower, lo, hi) ==
    IF lo > hi THEN 0
    ELSE IF lo = hi THEN WordScore(words[lo], text_lower)
    ELSE LET mid == (lo + hi) \div 2
         IN  ScoreRange(words, text_lower, lo, mid)
             + ScoreRange(words, text_lower, mid + 1, hi)

LexiconScore(words, text_lower) == ScoreRange(words, text_lower, 1, Len(words))

\* :461-471
EmotionScores(text_lower) ==
    [emotion \in {Emotions[i] : i \in 1..Len(Emotions)} |->
        LexiconScore(emotion_lexicons[emotion], text_lower)]

\* max(emotion_scores.values()), :474
MaxScore(emotion_scores) ==
    CHOOSE m \in {emotion_scores[e] : e \in DOMAIN emotion_scores} :
        \A e \in DOMAIN emotion_scores : emotion_scores[e] <= m

\* (the last category that holds the maximum instead of the first)
DominantLast(emotion_scores, max_score) ==
    Emotions[CHOOSE i \in 1..Len(Emotions) :
                /\ emotion_scores[Emotions[i]] = max_score
                /\ \A j \in (i + 1)..Len(Emotions) :
                      emotion_scores[Emotions[j]] # max_score]

\* :480-482, the first category, in iteration order, that holds the maximum
Dominant(emotion_scores, max_score) ==
    Emotions[CHOOSE i \in 1..Len(Emotions) :
                /\ emotion_scores[Emotions[i]] = max_score
                /\ \A j \in 1..(i - 1) : emotion_scores[Emotions[j]] # max_score]

\* emotion_processor.py:447-484
predict_emotion(text) ==
    IF Len(text) = 0 \/ Len(Strip(text)) = 0 THEN "neutral"
    ELSE LET emotion_scores == EmotionScores(Lower(text))
             max_score == MaxScore(emotion_scores)
         IN  IF max_score = 0 THEN "neutral"
             ELSE Dominant(emotion_scores, max_score)

-----------------------------------------------------------------------------
(* The classifiers applied to a text *)

\* _fallback_sentiment(input)
FallbackSentimentCall ==
    /\ op = "none"
    /\ op' = "_fallback_sentiment"
    /\ label' = _fallback_sentiment(input)
    /\ UNCHANGED input
    /\ UNCHANGED notLexVars

\* predict_emotion(input)
PredictEmotionCall ==
    /\ op = "none"
    /\ op' = "predict_emotion"
    /\ label' = predict_emotion(input)
    /\ UNCHANGED input
    /\ UNCHANGED notLexVars

-----------------------------------------------------------------------------
(* generate_sentiment_report / generate_emotion_report: the distribution *)

\* rows of a labelled dataframe
MaxRows == 4

\* sentiment_processor.py:190, :237-242
SentimentLabels == {"positive", "negative", "neutral"}

\* emotion_processor.py:574
EmotionLabels == {"joy", "anger", "sadness", "fear", "surprise", "disgust", "neutral"}

Columns(labels) == UNION {[1..n -> labels] : n \in 0..MaxRows}

\* (value_counts that loses the rows labelled neutral)
value_counts_dropping_neutral(col) ==
    [l \in {col[i] : i \in 1..Len(col)} \ {"neutral"} |->
        Cardinality({i \in 1..Len(col) : col[i] = l})]

\* Series.value_counts().to_dict(): the labels that occur, each with the
\* number of rows that carry it.
value_counts(col) ==
    [l \in {col[i] : i \in 1..Len(col)} |->
        Cardinality({i \in 1..Len(col) : col[i] = l})]

\* (the quotient cut, not rounded)
PercentageTruncated(count, total) == (count * 10000) \div total

\* round((count / total) * 100, 2), in hundredths of a percent: the quotient
\* rounded to the nearest hundredth, a tie going to the even one.
Percentage(count, total) ==
    LET n == count * 10000
        q == n \div total
        r == n % total
    IN  IF 2 * r < total THEN q
        ELSE IF 2 * r > total THEN q + 1
        ELSE IF q % 2 = 0 THEN q ELSE q + 1

\* sentiment_processor.py:383-390 and emotion_processor.py:541-548
Distribution(col, total) ==
    LET counts == value_counts(col)
    IN  [l \in DOMAIN counts |->
            [count |-> counts[l], percentage |-> Percentage(counts[l], total)]]

\* sentiment_processor.py:364-456, the distribution and the total
generate_sentiment_report(df) ==
    LET total == Len(df)
    IN  [sentiment_distribution |-> Distribution(df, total),
         total_analyzed |-> total]

\* emotion_processor.py:527-596, the distribution and the total
generate_emotion_report(df) ==
    LET total == Len(df)
    IN  [emotion_distribution |-> Distribution(df, total),
         total_analyzed |-> total]

NoReport == [total_analyzed |-> -1]

\* main.py:317 / main.py:719
SentimentReport ==
    /\ report = NoReport
    /\ \A i \in 1..Len(column) : column[i] \in SentimentLabels
    /\ report' = generate_sentiment_report(column)
    /\ UNCHANGED column
    /\ UNCHANGED notRepVars

\* main.py:344 / main.py:725
EmotionReport ==
    /\ report = NoReport
    /\ \A i \in 1..Len(column) : column[i] \in EmotionLabels
    /\ report' = generate_emotion_report(column)
    /\ UNCHANGED column
    /\ UNCHANGED notRepVars

-----------------------------------------------------------------------------
(* RecommendationProcessor.generate_recommendations *)

\* topics of a topic report
MaxTopics == 3

\* an empty dict (and None: the rules test both with "not data")
EmptyDict == << >>

\* recommendation_processor.py:24-29
priority_levels ==
    [critical |-> [weight |-> 1],
     high     |-> [weight |-> 2],
     medium   |-> [weight |-> 3],
     low      |-> [weight |-> 4]]

\* the fields of a recommendation the ordering reads and shows
Rec(category, priority, title) ==
    [category |-> category, priority |-> priority, title |-> title]

\* dist.get(label, {}).get('percentage', 0), in hundredths of a percent
Pct(dist, l) == IF l \in DOMAIN dist THEN dist[l].percentage ELSE 0

\* recommendation_processor.py:93-172
\* (the negative rule with its upper threshold met at 40 already)
AnalyzeSentimentFromForty(data) ==
    IF data = EmptyDict \/ "sentiment_distribution" \notin DOMAIN data
    THEN << >>
    ELSE LET dist == data.sentiment_distribution
         IN  (IF Pct(dist, "negative") >= 4000
              THEN << Rec("Sentiment", "critical", "High Negative Sentiment Detected") >>
              ELSE IF Pct(dist, "negative") > 2500
              THEN << Rec("Sentiment", "high", "Moderate Negative Sentiment") >>
              ELSE << >>)
             \o (IF Pct(dist, "positive") < 3000
                 THEN << Rec("Sentiment", "high", "Low Positive Sentiment") >>
                 ELSE << >>)
             \o (IF Pct(dist, "neutral") > 5000
                 THEN << Rec("Sentiment", "medium", "High Neutral Sentiment") >>
                 ELSE << >>)

_analyze_sentiment(data) ==
    IF data = EmptyDict \/ "sentiment_distribution" \notin DOMAIN data
    THEN << >>
    ELSE LET dist == data.sentiment_distribution
             negative_pct == Pct(dist, "negative")
             positive_pct == Pct(dist, "positive")
             neutral_pct == Pct(dist, "neutral")
         IN  (IF negative_pct > 4000
              THEN << Rec("Sentiment", "critical", "High Negative Sentiment Detected") >>
              ELSE IF negative_pct > 2500
              THEN << Rec("Sentiment", "high", "Moderate Negative Sentiment") >>
              ELSE << >>)
             \o (IF positive_pct < 3000
                 THEN << Rec("Sentiment", "high", "Low Positive Sentiment") >>
                 ELSE << >>)
             \o (IF neutral_pct > 5000
                 THEN << Rec("Sentiment", "medium", "High Neutral Sentiment") >>
                 ELSE << >>)

\* recommendation_processor.py:174-275
_analyze_emotions(data) ==
    IF data = EmptyDict \/ "emotion_distribution" \notin DOMAIN data
    THEN << >>
    ELSE LET dist == data.emotion_distribution
             anger_pct == Pct(dist, "anger")
             sadness_pct == Pct(dist, "sadness")
             fear_pct == Pct(dist, "fear")
             joy_pct == Pct(dist, "joy")
             disgust_pct == Pct(dist, "disgust")
         IN  (IF anger_pct > 1500
              THEN << Rec("Emotion", "critical", "High Anger Levels Detected") >>
              ELSE << >>)
             \o (IF fear_pct > 500
                 THEN << Rec("Emotion", "high", "Customer Anxiety Detected") >>
                 ELSE << >>)
             \o (IF sadness_pct > 1000
                 THEN << Rec("Emotion", "high", "High Disappointment Levels") >>
                 ELSE << >>)
             \o (IF joy_pct < 2500
                 THEN << Rec("Emotion", "medium", "Low Joy/Satisfaction Levels") >>
                 ELSE << >>)
             \o (IF disgust_pct > 500
                 THEN << Rec("Emotion", "critical", "Disgust/Strong Negative Reactions") >>
                 ELSE << >>)

\* sorted(topic_engagement, key=total_engagement, reverse=True): a stable
\* sort, topics of equal engagement keep the order of the list
RECURSIVE InsertTopic(_, _)
InsertTopic(sorted, t) ==
    IF sorted = << >> THEN << t >>
    ELSE IF Head(sorted).total_engagement >= t.total_engagement
         THEN << Head(sorted) >> \o InsertTopic(Tail(sorted), t)
         ELSE << t >> \o sorted

RECURSIVE SortTopics(_)
SortTopics(topics) ==
    IF topics = << >> THEN << >>
    ELSE InsertTopic(SortTopics(SubSeq(topics, 1, Len(topics) - 1)),
                     topics[Len(topics)])

\* recommendation_processor.py:277-329
_analyze_topics(data) ==
    IF data = EmptyDict \/ "topic_engagement" \notin DOMAIN data
    THEN << >>
    ELSE LET sorted_topics == SortTopics(data.topic_engagement)
         IN  IF Len(sorted_topics) > 0
             THEN << Rec("Topics", "medium",
                         "Top Performing Topic: " \o sorted_topics[1].topic_label) >>
                  \o (IF Len(sorted_topics) > 2
                      THEN << Rec("Topics", "low",
                                  "Low Engagement Topic: "
                                  \o sorted_topics[Len(sorted_topics)].topic_label) >>
                      ELSE << >>)
             ELSE << >>

RECURSIVE SumTotals(_)
SumTotals(eng_types) ==
    IF eng_types = << >> THEN 0
    ELSE Head(eng_types).total + SumTotals(Tail(eng_types))

\* :346-362, one recommendation for every type whose total is under half the
\* average: total < (total_eng / len) * 0.5
RECURSIVE LowTypes(_, _, _)
LowTypes(eng_types, total_eng, n) ==
    IF eng_types = << >> THEN << >>
    ELSE (IF 2 * n * Head(eng_types).total < total_eng
          THEN << Rec("Engagement", "medium",
                      "Low Engagement for " \o Head(eng_types).type) >>
          ELSE << >>)
         \o LowTypes(Tail(eng_types), total_eng, n)

\* recommendation_processor.py:331-386
_analyze_engagement(data) ==
    IF data = EmptyDict THEN << >>
    ELSE (IF "engagement_by_type" \in DOMAIN data
          THEN LowTypes(data.engagement_by_type,
                        SumTotals(data.engagement_by_type),
                        Len(data.engagement_by_type))
          ELSE << >>)
         \o (IF "total_engagement" \in DOMAIN data
             THEN LET total_posts == IF "total_posts" \in DOMAIN data
                                     THEN data.total_posts ELSE 1
                      \* total_engagement / total_posts < 100, or 0 < 100
                      low == IF total_posts > 0
                             THEN data.total_engagement < 100 * total_posts
                             ELSE TRUE
                  IN  IF low
                      THEN << Rec("Engagement", "high", "Low Overall Engagement Rate") >>
                      ELSE << >>
             ELSE << >>)

\* recommendation_processor.py:388-416
_analyze_timing(data) ==
    IF data = EmptyDict \/ "peak_hours" \notin DOMAIN data
    THEN << >>
    ELSE IF data.peak_hours # << >>
         THEN << Rec("Timing", "medium", "Optimize Posting Schedule") >>
         ELSE << >>

\* :49-64, the list before it is sorted
Generated(sd, ed, td, gd, pd) ==
    _analyze_sentiment(sd) \o _analyze_emotions(ed) \o _analyze_topics(td)
    \o _analyze_engagement(gd) \o _analyze_timing(pd)

\* (the list left in the order of generation)
NotSorted(recs) == recs

Weight(r) == priority_levels[r.priority].weight

RECURSIVE InsertByWeight(_, _)
InsertByWeight(sorted, r) ==
    IF sorted = << >> THEN << r >>
    ELSE IF Weight(Head(sorted)) <= Weight(r)
         THEN << Head(sorted) >> \o InsertByWeight(Tail(sorted), r)
         ELSE << r >> \o sorted

\* :67, recommendations.sort(key = weight of the priority): list.sort is a
\* stable sort, here as an insertion behind the entries of no greater weight
RECURSIVE SortByWeight(_)
SortByWeight(recs) ==
    IF recs = << >> THEN << >>
    ELSE InsertByWeight(SortByWeight(SubSeq(recs, 1, Len(recs) - 1)),
                        recs[Len(recs)])

\* :429-431 and :444-446, max() over the items of a distribution raises
\* ValueError on an empty one
InsightsRaise(sd, ed) ==
    \/ sd # EmptyDict /\ "sentiment_distribution" \in DOMAIN sd
         /\ DOMAIN sd.sentiment_distribution = {}
    \/ ed # EmptyDict /\ "emotion_distribution" \in DOMAIN ed
         /\ DOMAIN ed.emotion_distribution = {}

\* str.upper() on one character
UpperChar(c) ==
    CASE c = "a" -> "A" [] c = "b" -> "B" [] c = "c" -> "C" [] c = "d" -> "D"
      [] c = "e" -> "E" [] c = "f" -> "F" [] c = "g" -> "G" [] c = "h" -> "H"
      [] c = "i" -> "I" [] c = "j" -> "J" [] c = "k" -> "K" [] c = "l" -> "L"
      [] c = "m" -> "M" [] c = "n" -> "N" [] c = "o" -> "O" [] c = "p" -> "P"
      [] c = "q" -> "Q" [] c = "r" -> "R" [] c = "s" -> "S" [] c = "t" -> "T"
      [] c = "u" -> "U" [] c = "v" -> "V" [] c = "w" -> "W" [] c = "x" -> "X"
      [] c = "y" -> "Y" [] c = "z" -> "Z" [] OTHER -> c

\* str.capitalize()
Capitalize(s) ==
    IF Len(s) = 0 THEN ""
    ELSE UpperChar(SubSeq(s, 1, 1)) \o Lower(SubSeq(s, 2, Len(s)))

\* n / d rounded to the nearest integer, an exact half going to the even one
\* (n >= 0, d > 0): round() and the .0f format on an exact quotient
RoundHalfEven(n, d) ==
    LET q == n \div d
        r == n % d
    IN  IF 2 * r < d THEN q
        ELSE IF 2 * r > d THEN q + 1
        ELSE IF q % 2 = 0 THEN q ELSE q + 1

\* max(dist.items(), key=percentage): a label of the greatest percentage
\* (the first of them in the order of the dict when several share it)
DominantLabel(dist) ==
    CHOOSE l \in DOMAIN dist :
        \A k \in DOMAIN dist : dist[k].percentage <= dist[l].percentage

\* max(topic_engagement, key=total_engagement): the first topic of the
\* greatest engagement
TopTopic(topics) ==
    topics[CHOOSE i \in 1..Len(topics) :
              /\ \A k \in 1..Len(topics) :
                    topics[k].total_engagement <= topics[i].total_engagement
              /\ \A k \in 1..(i - 1) :
                    topics[k].total_engagement < topics[i].total_engagement]

\* engagement_data.get('total_posts', 1) and .get('total_engagement', 0)
TotalPosts(gd) == IF "total_posts" \in DOMAIN gd THEN gd.total_posts ELSE 1

TotalEngagement(gd) ==
    IF "total_engagement" \in DOMAIN gd THEN gd.total_engagement ELSE 0

\* recommendation_processor.py:418-504, where no max() raises: the category,
\* title and value of every insight (and the percentage of a dominant label)
_generate_insights(sd, ed, td, gd, pd) ==
    (IF sd # EmptyDict /\ "sentiment_distribution" \in DOMAIN sd
     THEN LET dist == sd.sentiment_distribution
              l == DominantLabel(dist)
          IN  << [category |-> "Sentiment", title |-> "Dominant Sentiment",
                  value |-> Capitalize(l), percentage |-> dist[l].percentage] >>
     ELSE << >>)
    \o (IF ed # EmptyDict /\ "emotion_distribution" \in DOMAIN ed
        THEN LET dist == ed.emotion_distribution
                 l == DominantLabel(dist)
             IN  << [category |-> "Emotion", title |-> "Dominant Emotion",
                     value |-> Capitalize(l), percentage |-> dist[l].percentage] >>
        ELSE << >>)
    \o (IF gd # EmptyDict
        THEN << [category |-> "Engagement", title |-> "Average Engagement",
                 value |-> IF TotalPosts(gd) > 0
                           THEN ToString(RoundHalfEven(TotalEngagement(gd), TotalPosts(gd)))
                           ELSE "0"] >>
        ELSE << >>)
    \o (IF td # EmptyDict /\ "topic_engagement" \in DOMAIN td
           /\ td.topic_engagement # << >>
        THEN << [category |-> "Topics", title |-> "Top Topic",
                 value |-> TopTopic(td.topic_engagement).topic_label] >>
        ELSE << >>)
    \o (IF pd # EmptyDict /\ "peak_hours" \in DOMAIN pd /\ pd.peak_hours # << >>
        THEN << [category |-> "Timing", title |-> "Peak Hours",
                 value |-> ToString(pd.peak_hours[1]) \o ":00-"
                           \o ToString(pd.peak_hours[Len(pd.peak_hours)]) \o ":00"] >>
        ELSE << >>)

\* min(100, max(0, x)), in hundredths
Clamp(x) == IF x < 0 THEN 0 ELSE IF x > 10000 THEN 10000 ELSE x

\* (a score cut to one decimal, not rounded)
ScoreCut(x) == x \div 10

\* round(score, 1): a score in hundredths to a score in tenths
ScoreRound(x) == RoundHalfEven(x, 10)

\* :521-530, in tenths of a point
SentimentScore(sd) ==
    IF sd # EmptyDict /\ "sentiment_distribution" \in DOMAIN sd
    THEN LET dist == sd.sentiment_distribution
         IN  ScoreRound(Clamp(Pct(dist, "positive") - Pct(dist, "negative") + 5000))
    ELSE 0

\* :532-541, in tenths of a point
EmotionScore(ed) ==
    IF ed # EmptyDict /\ "emotion_distribution" \in DOMAIN ed
    THEN LET dist == ed.emotion_distribution
         IN  ScoreRound(Clamp(Pct(dist, "joy")
                              - (Pct(dist, "anger") + Pct(dist, "sadness")
                                 + Pct(dist, "disgust"))
                              + 5000))
    ELSE 0

\* (the tiers of the engagement score with 200 left out of the first)
EngagementScoreOpenTiers(gd) ==
    IF gd = EmptyDict THEN 0
    ELSE LET total_posts == TotalPosts(gd)
             total_engagement == TotalEngagement(gd)
         IN  IF total_posts > 0
             THEN IF total_engagement > 200 * total_posts THEN 1000
                  ELSE IF total_engagement > 100 * total_posts THEN 750
                  ELSE IF total_engagement > 50 * total_posts THEN 500
                  ELSE RoundHalfEven(10 * total_engagement, total_posts)
             ELSE 0

\* :543-560, in tenths of a point; avg = total_engagement / total_posts
EngagementScore(gd) ==
    IF gd = EmptyDict THEN 0
    ELSE LET total_posts == TotalPosts(gd)
             total_engagement == TotalEngagement(gd)
         IN  IF total_posts > 0
             THEN IF total_engagement >= 200 * total_posts THEN 1000
                  ELSE IF total_engagement >= 100 * total_posts THEN 750
                  ELSE IF total_engagement >= 50 * total_posts THEN 500
                  ELSE RoundHalfEven(10 * total_engagement, total_posts)
             ELSE 0

\* (the rating read from the rounded overall score, in thousandths)
RatingOfRounded(overall) ==
    LET shown == 100 * RoundHalfEven(overall, 100)
    IN  IF shown >= 80000 THEN "Excellent"
        ELSE IF shown >= 60000 THEN "Good"
        ELSE IF shown >= 40000 THEN "Fair"
        ELSE "Poor"

\* :571-586, the rating of the overall score before it is rounded, the
\* score in thousandths of a point
Rating(overall) ==
    IF overall >= 80000 THEN "Excellent"
    ELSE IF overall >= 60000 THEN "Good"
    ELSE IF overall >= 40000 THEN "Fair"
    ELSE "Poor"

\* recommendation_processor.py:506-588; the scores reported are in tenths of
\* a point, as round(x, 1) leaves them
_calculate_performance_score(sd, ed, gd) ==
    LET sentiment_score == SentimentScore(sd)
        emotion_score == EmotionScore(ed)
        engagement_score == EngagementScore(gd)
        \* :562-566, the weighted sum of the rounded scores, in thousandths
        overall_score == 35 * sentiment_score + 35 * emotion_score
                         + 30 * engagement_score
    IN  [sentiment_score |-> sentiment_score,
         emotion_score |-> emotion_score,
         engagement_score |-> engagement_score,
         overall_score |-> RoundHalfEven(overall_score, 100),
         rating |-> Rating(overall_score)]

IsUrgent(r) == r.priority \in {"critical", "high"}

\* :80-83
PriorityActions(recs) ==
    LET urgent == SelectSeq(recs, IsUrgent)
    IN  SubSeq(urgent, 1, IF Len(urgent) < 5 THEN Len(urgent) ELSE 5)

\* recommendation_processor.py:31-91
generate_recommendations(sd, ed, td, gd, pd) ==
    LET recommendations == SortByWeight(Generated(sd, ed, td, gd, pd))
    IN  IF InsightsRaise(sd, ed)
        THEN [error |-> "ValueError"]
        ELSE [insights |-> _generate_insights(sd, ed, td, gd, pd),
              recommendations |-> recommendations,
              priority_actions |-> PriorityActions(recommendations),
              performance_score |-> _calculate_performance_score(sd, ed, gd),
              total_recommendations |-> Len(recommendations)]

\* ---- the reports a call is given ----

DistOf(shares) ==
    [l \in {k \in DOMAIN shares : shares[k] > 0} |-> [percentage |-> shares[l]]]

\* shares of the three sentiment labels on either side of the thresholds
SentimentShares ==
    {[negative |-> 4001, positive |-> 2999, neutral |-> 3000],
     [negative |-> 4000, positive |-> 3000, neutral |-> 3000],
     [negative |-> 2501, positive |-> 2499, neutral |-> 5000],
     [negative |-> 2500, positive |-> 2499, neutral |-> 5001],
     [negative |-> 2500, positive |-> 3000, neutral |-> 4500],
     [negative |->    0, positive |->    0, neutral |-> 10000]}

\* main.py:717-722: {} without a processor, else a report, whose
\* distribution is empty for an empty dataframe
SentimentReports ==
    {EmptyDict, [sentiment_distribution |-> << >>]}
    \cup {[sentiment_distribution |-> DistOf(x)] : x \in SentimentShares}

EmotionShares ==
    [anger : {1500, 1501}, fear : {500, 501}, sadness : {1000, 1001},
     joy : {2499, 2500}, disgust : {0, 501}]

\* main.py:724-726
EmotionReports ==
    {[emotion_distribution |-> << >>]}
    \cup {[emotion_distribution |-> DistOf(x)] : x \in EmotionShares}

TopicLabels == << "Topic A", "Topic B", "Topic C", "Topic D" >>

\* topic_pillar_processor.py:261-288, one entry per topic in topic order
TopicLists ==
    UNION {{[i \in 1..n |-> [topic_label |-> TopicLabels[i],
                             total_engagement |-> e[i]]] :
               e \in [1..n -> {10, 20}]} : n \in 0..MaxTopics}

\* main.py:728-729: a report or the error payload (topic_pillar_processor.py:417)
TopicReports ==
    {[error |-> "e"]} \cup {[topic_engagement |-> t] : t \in TopicLists}

\* main.py:731-732: {} or the statistics (data_processor.py:303-315); a
\* report by type where the caller supplies one
EngagementReports ==
    {EmptyDict,
     [total_posts |-> 2, total_engagement |-> 199],
     [total_posts |-> 2, total_engagement |-> 200],
     [engagement_by_type |-> << >>],
     [total_engagement |-> 99,
      engagement_by_type |-> << [type |-> "Photo", total |-> 10],
                                [type |-> "Video", total |-> 100],
                                [type |-> "Text", total |-> 10] >>]}

\* main.py:733-734
PeakHourReports ==
    {EmptyDict, [error |-> "Not enough data for clustering"],
     [peak_hours |-> << >>], [peak_hours |-> << 19, 20 >>]}

NoResult == [none |-> TRUE]

\* main.py:737-743
GenerateRecommendations ==
    /\ result = NoResult
    /\ result' = generate_recommendations(sentiment_data, emotion_data,
                     topic_data, engagement_data, peak_hours_data)
    /\ UNCHANGED <<sentiment_data, emotion_data, topic_data, engagement_data,
                   peak_hours_data, scores>>
    /\ UNCHANGED notRecVars

\* the reports a performance score is calculated from: shares whose scores
\* fall on the bounds of the clamp, between two tenths, and next to a tier
ScoreSentimentReports ==
    {EmptyDict}
    \cup {[sentiment_distribution |-> DistOf(x)] :
             x \in {[positive |-> 6000, negative |-> 4000],
                    [positive |-> 6070, negative |-> 3930],
                    [positive |-> 3333, negative |-> 0],
                    [positive |-> 0, negative |-> 10000],
                    [positive |-> 10000, negative |-> 0]}}

ScoreEmotionReports ==
    {EmptyDict}
    \cup {[emotion_distribution |-> DistOf(x)] :
             x \in {[joy |-> 4000, anger |-> 1000, sadness |-> 500, disgust |-> 360],
                    [joy |-> 10000, anger |-> 0, sadness |-> 0, disgust |-> 0],
                    [joy |-> 3333, anger |-> 6667, sadness |-> 0, disgust |-> 0],
                    [joy |-> 0, anger |-> 10000, sadness |-> 0, disgust |-> 0],
                    [joy |-> 2500, anger |-> 0, sadness |-> 1250, disgust |-> 0]}}

\* posts of the statistics a score is calculated from
ScorePosts == 3

ScoreEngagementReports ==
    {EmptyDict, [total_engagement |-> 200],
     [total_posts |-> 0, total_engagement |-> 0]}
    \cup {[total_posts |-> ScorePosts, total_engagement |-> e] :
             e \in {200 * ScorePosts, 200 * ScorePosts - 1,
                    100 * ScorePosts, 100 * ScorePosts - 1,
                    50 * ScorePosts, 50 * ScorePosts - 1, 1}}

NoScores == [none |-> TRUE]

\* recommendation_processor.py:75-77
CalculatePerformanceScore ==
    /\ scores = NoScores
    /\ scores' = _calculate_performance_score(sentiment_data, emotion_data,
                                              engagement_data)
    /\ UNCHANGED <<sentiment_data, emotion_data, topic_data, engagement_data,
                   peak_hours_data, result>>
    /\ UNCHANGED notRecVars

-----------------------------------------------------------------------------
(* DataProcessor.get_peak_activity_hours *)

\* rows of replies.csv
MaxReplies == 4

\* the hours of the day the replies of the model are written in
HoursOfDay == {9, 10, 23}

\* a created_at that parse_twitter_date cannot read (data_processor.py:86-93):
\* it gives None, written -1 among the hours
Unparsable == -1

ReplyDates == UNION {[1..n -> HoursOfDay \cup {Unparsable}] : n \in 0..MaxReplies}

IsHour(d) == d # Unparsable

\* :335-339, the hour of every row whose date parses
ParsedHours(dates) == SelectSeq(dates, IsHour)

\* Counter(hours).items(): the distinct hours in the order they are first
\* seen, each with the number of rows of that hour (:346-349)
FeatureMatrix(hours) ==
    LET first == {i \in 1..Len(hours) : \A j \in 1..(i - 1) : hours[j] # hours[i]}
        Row(i) == [hour |-> hours[i],
                   count |-> Cardinality({j \in 1..Len(hours) : hours[j] = hours[i]})]
        RECURSIVE Rows(_)
        Rows(i) == IF i > Len(hours) THEN << >>
                   ELSE (IF i \in first THEN << Row(i) >> ELSE << >>) \o Rows(i + 1)
    IN  Rows(1)

RECURSIVE SumSeq(_)
SumSeq(xs) == IF xs = << >> THEN 0 ELSE Head(xs) + SumSeq(Tail(xs))

\* n * n * the population variance of a column, which StandardScaler divides
\* by; a column of variance 0 is left unscaled (:352-353)
Spread(xs) ==
    LET sq == [i \in 1..Len(xs) |-> xs[i] * xs[i]]
    IN  Len(xs) * SumSeq(sq) - SumSeq(xs) * SumSeq(xs)

\* two rows of the standardized matrix at Euclidean distance <= eps = 0.5
Near(X, i, j) ==
    LET n == Len(X)
        hs == [k \in 1..n |-> X[k].hour]
        cs == [k \in 1..n |-> X[k].count]
        dh == (X[i].hour - X[j].hour) * (X[i].hour - X[j].hour)
        dc == (X[i].count - X[j].count) * (X[i].count - X[j].count)
        Ah == Spread(hs)
        Ac == Spread(cs)
    IN  IF Ah > 0 /\ Ac > 0 THEN 4 * n * n * (dh * Ac + dc * Ah) <= Ah * Ac
        ELSE IF Ah > 0 THEN 4 * n * n * dh <= Ah
        ELSE IF Ac > 0 THEN 4 * n * n * dc <= Ac
        ELSE TRUE

RECURSIVE Grow(_, _)
Grow(X, S) ==
    LET T == S \cup {j \in 1..Len(X) : \E i \in S : Near(X, i, j)}
    IN  IF T = S THEN S ELSE Grow(X, T)

MinOf(S) == CHOOSE i \in S : \A j \in S : i <= j

MaxOf(S) == CHOOSE i \in S : \A j \in S : i >= j

\* DBSCAN(eps=0.5, min_samples=2).fit_predict (:357-358): with min_samples 2
\* a row with a neighbour is a core row, so the clusters are the groups of
\* two rows or more linked by neighbourhood, numbered from 0 in the order
\* of their first rows; a row without a neighbour is an outlier, -1
fit_predict(X) ==
    LET Group(i) == Grow(X, {i})
        firsts == {MinOf(Group(i)) : i \in {k \in 1..Len(X) : Cardinality(Group(k)) >= 2}}
    IN  [i \in 1..Len(X) |->
            IF Cardinality(Group(i)) < 2 THEN -1
            ELSE Cardinality({f \in firsts : f < MinOf(Group(i))})]

\* :368-380, the range of one cluster; avg_activity is the mean of the
\* cluster's hour values cut to an integer (:374)
PeakRange(X, labels, cluster_id) ==
    LET rows == SelectSeq([i \in 1..Len(X) |-> IF labels[i] = cluster_id
                                                THEN X[i].hour ELSE -1],
                          LAMBDA h : h >= 0)
        cluster_hours == {rows[i] : i \in 1..Len(rows)}
    IN  [cluster_id |-> cluster_id,
         start_hour |-> MinOf(cluster_hours),
         end_hour |-> MaxOf(cluster_hours),
         avg_activity |-> SumSeq(rows) \div Len(rows)]

RECURSIVE InsertRange(_, _)
InsertRange(sorted, r) ==
    IF sorted = << >> THEN << r >>
    ELSE IF Head(sorted).avg_activity >= r.avg_activity
         THEN << Head(sorted) >> \o InsertRange(Tail(sorted), r)
         ELSE << r >> \o sorted

\* :383, peak_ranges.sort(key=avg_activity, reverse=True), a stable sort
RECURSIVE SortRanges(_)
SortRanges(ranges) ==
    IF ranges = << >> THEN << >>
    ELSE InsertRange(SortRanges(SubSeq(ranges, 1, Len(ranges) - 1)),
                     ranges[Len(ranges)])

\* :364-419, the result of a clustering (the coordinates of the projection
\* and the formatted range text are left out)
ClusteringResult(hours) ==
    LET X == FeatureMatrix(hours)
        labels == fit_predict(X)
        unique_clusters == {labels[i] : i \in 1..Len(X)} \ {-1}
        ranges == [c \in 1..Cardinality(unique_clusters) |-> PeakRange(X, labels, c - 1)]
    IN  [peak_ranges |-> SortRanges(ranges),
         scatter_data |->
             [points |-> [i \in 1..Len(X) |->
                 [hour |-> X[i].hour, count |-> X[i].count,
                  cluster |-> labels[i], is_outlier |-> labels[i] = -1]]],
         total_hours_analyzed |-> Len(hours),
         unique_hours |-> Len(X),
         num_clusters |-> Cardinality(unique_clusters),
         num_outliers |-> Cardinality({i \in 1..Len(X) : labels[i] = -1})]

\* :386-387, PCA(n_components=2).fit_transform raises ValueError on a matrix
\* of fewer than 2 rows (n_components above min(n_samples, n_features))
PCARaises(hours) == Len(FeatureMatrix(hours)) < 2

NotEnoughData == [error |-> "Not enough data for clustering"]

NoPeak == [none |-> TRUE]

\* data_processor.py:322-424, what the call returns on the created_at column
peak_activity_hours(dates) ==
    LET hours == ParsedHours(dates)
    IN  IF dates = << >> THEN EmptyDict                 \* :330-332
        ELSE IF Len(hours) < 2 THEN NotEnoughData       \* :341-342
        ELSE IF PCARaises(hours) THEN EmptyDict         \* :419-424
        ELSE ClusteringResult(hours)

\* data_processor.py:322-424
get_peak_activity_hours ==
    /\ peak = NoPeak
    /\ peak' = peak_activity_hours(created_at)
    /\ skCalls' = IF created_at # << >> /\ Len(ParsedHours(created_at)) >= 2
                  THEN {"StandardScaler", "DBSCAN", "PCA"}
                  ELSE skCalls
    /\ UNCHANGED created_at
    /\ UNCHANGED notPeakVars

-----------------------------------------------------------------------------
(* main.get_recommendations: GET /api/recommendations *)

\* The calls of the request whose exception reaches the handler of the
\* request: reading the replies (main.py:713), the sentiment and the emotion
\* engine (:718-719, :724-725), the topic engine (:728,
\* topic_pillar_processor.py:239-258).
Raising == {"replies", "sentiment", "emotion", "topics"}

\* The calls that catch their own exception and return {}
\* (data_processor.py:316-320, :423-428).
Swallowing == {"statistics", "peak"}

Engines == Raising \cup Swallowing

NoResponse == [none |-> TRUE]

\* main.py:746-750 (the time of generation is left out)
Metadata ==
    [data_source |-> "replies.csv + tweet.xlsx",
     analysis_types |-> << "sentiment", "emotion", "topics", "engagement", "timing" >>]

\* main.py:694-757, the whole request
get_recommendations ==
    /\ response = NoResponse
    /\ response' =
          IF failures \cap Raising # {}
          THEN [error |-> "exception"]                       \* :754-757
          ELSE LET gd == IF "statistics" \in failures
                         THEN EmptyDict ELSE engagement_data
                   pd == IF "peak" \in failures
                         THEN EmptyDict ELSE peak_hours_data
                   res == generate_recommendations(sentiment_data,
                              emotion_data, topic_data, gd, pd)
               IN  IF "error" \in DOMAIN res
                   THEN [error |-> res.error]                \* :754-757
                   ELSE [k \in DOMAIN res \cup {"metadata"} |->
                            IF k = "metadata" THEN Metadata ELSE res[k]]
    /\ UNCHANGED <<failures, sentiment_data, emotion_data, topic_data,
                   engagement_data, peak_hours_data, result, scores>>
    /\ UNCHANGED <<sentVars, lexVars, repVars, peakVars, aggVars, normVars,
                   dataVars, metaVars, pipeVars>>

\* the reports of the engines of a request, when they do not fail
OpSentimentReports ==
    {EmptyDict, [sentiment_distribution |-> << >>]}
    \cup {[sentiment_distribution |-> DistOf(x)] :
             x \in {y \in SentimentShares : y.neutral = 3000}}

OpEmotionReports ==
    {[emotion_distribution |-> << >>]}
    \cup {[emotion_distribution |-> DistOf(x)] :
             x \in {y \in EmotionShares :
                       y.anger = 1501 /\ y.fear = 501 /\ y.sadness = 1001}}

\* The created_at columns of the requests of the model: no reply, one reply,
\* replies at two distant hours, replies at two neighbouring hours and a
\* distant one.
OpReplyDates == {<< >>, << 9 >>, << 9, 23 >>, << 9, 10, 23 >>}

\* main.py:734, dp.get_peak_activity_hours()
OpPeakHourReports == {peak_activity_hours(d) : d \in OpReplyDates}

OpTopicReports ==
    {[topic_engagement |-> t] :
        t \in {u \in TopicLists : \A i \in 1..Len(u) : u[i].total_engagement = 20}}

-----------------------------------------------------------------------------
(* Replies matched to posts: DataProcessor statistics and topic engagement *)

\* rows of tweet.xlsx
MaxPosts == 2

\* a cell without a value (NaN)
NaN == "NaN"

\* the Permalink cells of the model: two posts, a link with a trailing
\* query, a link that ends in a name, a link with a trailing slash, no link
Permalinks ==
    {"https://twitter.com/u/status/101",
     "https://twitter.com/u/status/102",
     "https://twitter.com/u/status/101?s=20",
     "https://twitter.com/u/photo",
     "https://twitter.com/u/status/102/",
     NaN}

\* the value of groupby('Type'), which lists its groups in sorted order
PostTypes == << "Photo", "Video" >>

\* Likes and Retweets of every post of the model
LikesOfPost == 3

RetweetsOfPost == 1

Posts ==
    [Permalink : Permalinks, Type : {PostTypes[i] : i \in 1..Len(PostTypes)},
     dominant_topic : {0, 1}, Likes : {LikesOfPost}, Retweets : {RetweetsOfPost}]

TweetTables == UNION {[1..n -> Posts] : n \in 0..MaxPosts}

\* the conversation_id_str column: no replies file, or replies to 101 and 102
ReplyTables == {<< >>, << 101 >>, << 101, 102, 101 >>}

IsDigit(c) == c \in {"0", "1", "2", "3", "4", "5", "6", "7", "8", "9"}

DigitValue(c) ==
    CASE c = "0" -> 0 [] c = "1" -> 1 [] c = "2" -> 2 [] c = "3" -> 3
      [] c = "4" -> 4 [] c = "5" -> 5 [] c = "6" -> 6 [] c = "7" -> 7
      [] c = "8" -> 8 [] c = "9" -> 9

\* int(s) succeeds on a text of digits
IsInt(s) == Len(s) > 0 /\ \A i \in 1..Len(s) : IsDigit(SubSeq(s, i, i))

\* int(s) of a text of digits
RECURSIVE ToInt(_)
ToInt(s) ==
    IF Len(s) = 0 THEN 0
    ELSE 10 * ToInt(SubSeq(s, 1, Len(s) - 1)) + DigitValue(SubSeq(s, Len(s), Len(s)))

\* no identifier (None)
None == "None"

\* data_processor.py:139-150, str(permalink).split('/')[-1]
get_tweet_id_from_permalink(permalink) ==
    IF permalink = NaN THEN None
    ELSE LET slashes == {i \in 1..Len(permalink) : SubSeq(permalink, i, i) = "/"}
         IN  IF slashes = {} THEN permalink
             ELSE SubSeq(permalink, MaxOf(slashes) + 1, Len(permalink))

\* topic_pillar_processor.py:202-213, re.search(r'/status/(\d+)', ...): the
\* digits behind the first "/status/" that has a digit behind it
extract_id_from_permalink(permalink) ==
    IF permalink = NaN \/ permalink = "" THEN None
    ELSE LET starts == {i \in 1..Len(permalink) :
                           /\ i + 8 <= Len(permalink)
                           /\ SubSeq(permalink, i, i + 7) = "/status/"
                           /\ IsDigit(SubSeq(permalink, i + 8, i + 8))}
         IN  IF starts = {} THEN None
             ELSE LET b == MinOf(starts) + 8
                      ends == {e \in b..Len(permalink) :
                                  /\ \A k \in b..e : IsDigit(SubSeq(permalink, k, k))
                                  /\ (e = Len(permalink)
                                      \/ ~IsDigit(SubSeq(permalink, e + 1, e + 1)))}
                  IN  SubSeq(permalink, b, MinOf(ends))

\* data_processor.py:56-78, groupby('conversation_id_str').size(): the
\* number of replies of a conversation, 0 for a key not in the dict
ReplyCount(replies, id) ==
    Cardinality({i \in 1..Len(replies) : replies[i] = id})

\* topic_pillar_processor.py:216-231: 0 on a missing identifier and on any
\* exception
calculate_reply_count(replies, id_str) ==
    IF id_str = None THEN 0
    ELSE IF ~IsInt(id_str) THEN 0
    ELSE ReplyCount(replies, ToInt(id_str))

\* a row whose identifier is there and makes int() raise ValueError
IntRaises(post) ==
    LET tweet_id == get_tweet_id_from_permalink(post.Permalink)
    IN  tweet_id # None /\ tweet_id # "" /\ ~IsInt(tweet_id)

\* reply_counts.get(int(tweet_id), 0) of a row that has an identifier int()
\* reads; 0 for a row without one ("if tweet_id", "if x else 0")
RepliesOfPost(replies, post) ==
    LET tweet_id == get_tweet_id_from_permalink(post.Permalink)
    IN  IF tweet_id = None \/ tweet_id = "" \/ ~IsInt(tweet_id) THEN 0
        ELSE ReplyCount(replies, ToInt(tweet_id))

RECURSIVE SumOf(_, _)
SumOf(F(_), rows) ==
    IF rows = << >> THEN 0 ELSE F(Head(rows)) + SumOf(F, Tail(rows))

LikesOf(post) == post.Likes

RetweetsOf(post) == post.Retweets

\* data_processor.py:216-251
get_basic_statistics(df, replies) ==
    IF df = << >> THEN EmptyDict                                     \* :226-227
    ELSE IF \E i \in 1..Len(df) : IntRaises(df[i]) THEN EmptyDict    \* :247-251
    ELSE LET R(post) == RepliesOfPost(replies, post)
             total_replies == SumOf(R, df)
         IN  [total_posts |-> Len(df),
              total_replies |-> total_replies,
              total_likes |-> SumOf(LikesOf, df),
              total_retweets |-> SumOf(RetweetsOf, df),
              total_engagement |-> SumOf(LikesOf, df) + total_replies
                                   + SumOf(RetweetsOf, df)]

\* int(x) of a quotient: cut towards zero
TruncDiv(n, d) == IF n >= 0 THEN n \div d ELSE -((-n) \div d)

\* :286-294, int(last - mean of the previous rows)
Delta(F(_), df) ==
    LET k == Len(df) - 1
    IN  TruncDiv(k * F(df[Len(df)]) - SumOf(F, SubSeq(df, 1, k)), k)

\* data_processor.py:253-320; the rows are taken in the order of their Date
get_statistics_with_delta(df, replies) ==
    IF df = << >> THEN EmptyDict                                     \* :262-263
    ELSE IF \E i \in 1..Len(df) : IntRaises(df[i]) THEN EmptyDict    \* :316-320
    ELSE LET R(post) == RepliesOfPost(replies, post)
             E(post) == post.Likes + R(post) + post.Retweets
             total_replies == SumOf(R, df)
             some == Len(df) >= 2
         IN  [total_posts |-> Len(df),
              total_replies |-> total_replies,
              total_likes |-> SumOf(LikesOf, df),
              total_retweets |-> SumOf(RetweetsOf, df),
              total_engagement |-> SumOf(LikesOf, df) + total_replies
                                   + SumOf(RetweetsOf, df),
              delta_posts |-> 0,
              delta_replies |-> IF some THEN Delta(R, df) ELSE 0,
              delta_likes |-> IF some THEN Delta(LikesOf, df) ELSE 0,
              delta_retweets |-> IF some THEN Delta(RetweetsOf, df) ELSE 0,
              delta_engagement |-> IF some THEN Delta(E, df) ELSE 0]

OfType(df, t) ==
    LET Is(post) == post.Type = t
    IN  SelectSeq(df, Is)

\* data_processor.py:152-214
get_engagement_by_type(df, replies) ==
    IF df = << >> THEN << >>                                         \* :162-164
    ELSE IF \E i \in 1..Len(df) : IntRaises(df[i]) THEN << >>        \* :210-214
    ELSE LET R(post) == RepliesOfPost(replies, post)
             Entry(t) ==
                 LET rows == OfType(df, t)
                 IN  [type |-> t,
                      likes |-> SumOf(LikesOf, rows),
                      replies |-> SumOf(R, rows),
                      retweets |-> SumOf(RetweetsOf, rows),
                      total |-> SumOf(LikesOf, rows) + SumOf(R, rows)
                                + SumOf(RetweetsOf, rows)]
             present == SelectSeq(PostTypes, LAMBDA t : OfType(df, t) # << >>)
         IN  [i \in 1..Len(present) |-> Entry(present[i])]

OfTopic(df, topic_idx) ==
    LET Is(post) == post.dominant_topic = topic_idx
    IN  SelectSeq(df, Is)

\* topic_pillar_processor.py:260-288, the engagement of the topics 0 and 1,
\* each post given with the topic the model assigned to it
topic_engagement(df, replies) ==
    LET R(post) == calculate_reply_count(replies,
                       extract_id_from_permalink(post.Permalink))
        Entry(topic_idx) ==
            LET topic_tweets == OfTopic(df, topic_idx)
            IN  [topic_id |-> topic_idx,
                 topic_label |-> "Topic " \o ToString(topic_idx + 1),
                 total_likes |-> SumOf(LikesOf, topic_tweets),
                 total_replies |-> SumOf(R, topic_tweets),
                 total_retweets |-> SumOf(RetweetsOf, topic_tweets),
                 total_engagement |-> SumOf(LikesOf, topic_tweets)
                                      + SumOf(R, topic_tweets)
                                      + SumOf(RetweetsOf, topic_tweets),
                 tweet_count |-> Len(topic_tweets)]
    IN  << Entry(0), Entry(1) >>

NoAnswer == [op |-> "none"]

\* data_processor.py:216-251
BasicStatistics ==
    /\ answer = NoAnswer
    /\ answer' = [op |-> "get_basic_statistics",
                  value |-> get_basic_statistics(tweet_df, replies_df)]
    /\ UNCHANGED <<tweet_df, replies_df>>
    /\ UNCHANGED notAggVars

\* data_processor.py:253-320 (called at main.py:360 and :731)
StatisticsWithDelta ==
    /\ answer = NoAnswer
    /\ answer' = [op |-> "get_statistics_with_delta",
                  value |-> get_statistics_with_delta(tweet_df, replies_df)]
    /\ UNCHANGED <<tweet_df, replies_df>>
    /\ UNCHANGED notAggVars

\* data_processor.py:152-214 (called at main.py:361)
EngagementByType ==
    /\ answer = NoAnswer
    /\ answer' = [op |-> "get_engagement_by_type",
                  value |-> get_engagement_by_type(tweet_df, replies_df)]
    /\ UNCHANGED <<tweet_df, replies_df>>
    /\ UNCHANGED notAggVars

\* topic_pillar_processor.py:260-288
TopicEngagement ==
    /\ answer = NoAnswer
    /\ answer' = [op |-> "topic_engagement",
                  value |-> topic_engagement(tweet_df, replies_df)]
    /\ UNCHANGED <<tweet_df, replies_df>>
    /\ UNCHANGED notAggVars

-----------------------------------------------------------------------------
(* Text normalization: preprocess_text of the three engines *)

\* pieces per raw text
MaxPieces == 3

\* applications of one normalizer to a text
MaxPasses == 2

\* A text is the sequence of its characters. A character is written as the
\* one-character string, and the emoji U+1F64F (folded hands) by its code point.
FoldedHands == "U+1F64F"

RECURSIVE Chars(_)
Chars(s) ==
    IF Len(s) = 0 THEN << >>
    ELSE <<SubSeq(s, 1, 1)>> \o Chars(SubSeq(s, 2, Len(s)))

RECURSIVE Str(_)
Str(t) ==
    IF t = << >> THEN "" ELSE Head(t) \o Str(Tail(t))

AsciiLower ==
    {"a", "b", "c", "d", "e", "f", "g", "h", "i", "j", "k", "l", "m",
     "n", "o", "p", "q", "r", "s", "t", "u", "v", "w", "x", "y", "z"}

AsciiUpper ==
    {"A", "B", "C", "D", "E", "F", "G", "H", "I", "J", "K", "L", "M",
     "N", "O", "P", "Q", "R", "S", "T", "U", "V", "W", "X", "Y", "Z"}

AsciiDigits == {"0", "1", "2", "3", "4", "5", "6", "7", "8", "9"}

\* \w of a str pattern: the alphanumeric characters of Unicode and "_"
IsWordChar(c) ==
    c \in AsciiLower \cup AsciiUpper \cup AsciiDigits \cup {"_", "Â", "â", "³"}

\* \s of a str pattern
IsSpaceChar(c) == c = " "

\* the character class of emoji_pattern (U+1F600-U+1F64F, ..., U+24C2-U+1F251)
IsEmojiChar(c) == c = FoldedHands

\* The characters a URL goes on with. Sentiment and topic engines:
\* [a-zA-Z] | [0-9] | [$-_@.&+] | [!*\\(\\),] | %xx, where $-_ is the range
\* U+0024..U+005F; emotion engine: \S
IsUrlChar(eng, c) ==
    IF eng = "emotion" THEN ~IsSpaceChar(c)
    ELSE c \in AsciiLower \cup AsciiUpper \cup AsciiDigits \cup
               {"$", "%", "&", "'", "(", ")", "*", "+", ",", "-", ".", "/",
                ":", ";", "<", "=", ">", "?", "@", "[", "\\", "]", "^", "_",
                "!"}

\* str.lower() on one character
LowerOf(c) == IF c = "Â" THEN "â" ELSE LowerChar(c)

StartsWith(t, p) == Len(p) <= Len(t) /\ SubSeq(t, 1, Len(p)) = p

Drop(t, n) == SubSeq(t, n + 1, Len(t))

\* str.replace(old, new): the occurrences of old, left to right, not overlapping
RECURSIVE Replace(_, _, _)
Replace(t, old, new) ==
    IF t = << >> THEN << >>
    ELSE IF StartsWith(t, old) THEN new \o Replace(Drop(t, Len(old)), old, new)
    ELSE <<Head(t)>> \o Replace(Tail(t), old, new)

\* Step 1, `for emoji, replacement in emoji_dict.items(): text =
\* text.replace(emoji, f' {replacement} ')`, with the keys of emoji_dict that
\* can occur in a text of Texts3: the emoji U+1F64F in the sentiment and topic
\* engines, and in the emotion engine the key "â³" (U+00E2 U+00B3) of its
\* dictionary, whose keys are stored as mis-decoded bytes
ConvertEmoji(eng, t) ==
    IF eng = "emotion" THEN Replace(t, Chars("â³"), Chars(" waktu "))
    ELSE Replace(t, <<FoldedHands>>, Chars(" terima_kasih "))

\* the length of the longest prefix of URL characters
RECURSIVE UrlRun(_, _)
UrlRun(eng, t) ==
    IF t # << >> /\ IsUrlChar(eng, Head(t)) THEN 1 + UrlRun(eng, Tail(t)) ELSE 0

\* the length of the longest prefix of word characters
RECURSIVE WordRun(_)
WordRun(t) ==
    IF t # << >> /\ IsWordChar(Head(t)) THEN 1 + WordRun(Tail(t)) ELSE 0

\* the length of `http[s]?://` at the start of t, 0 when it does not match
SchemeLen(t) ==
    IF StartsWith(t, Chars("https://")) THEN 8
    ELSE IF StartsWith(t, Chars("http://")) THEN 7
    ELSE 0

\* Step 2, first substitution: re.sub(r'http[s]?://(...)+', '', text)
RECURSIVE RemoveHttp(_, _)
RemoveHttp(eng, t) ==
    IF t = << >> THEN << >>
    ELSE LET n == SchemeLen(t)
             m == UrlRun(eng, Drop(t, n))
         IN  IF n > 0 /\ m > 0 THEN RemoveHttp(eng, Drop(t, n + m))
             ELSE <<Head(t)>> \o RemoveHttp(eng, Tail(t))

\* Step 2, second substitution: re.sub(r'www\.(...)+', '', text)
RECURSIVE RemoveWww(_, _)
RemoveWww(eng, t) ==
    IF t = << >> THEN << >>
    ELSE LET m == UrlRun(eng, Drop(t, 4))
         IN  IF StartsWith(t, Chars("www.")) /\ m > 0
             THEN RemoveWww(eng, Drop(t, 4 + m))
             ELSE <<Head(t)>> \o RemoveWww(eng, Tail(t))

\* Step 3: re.sub(r'@\w+', '', text)
RECURSIVE RemoveMentions(_)
RemoveMentions(t) ==
    IF t = << >> THEN << >>
    ELSE IF Head(t) = "@" /\ WordRun(Tail(t)) > 0
         THEN RemoveMentions(Drop(t, 1 + WordRun(Tail(t))))
         ELSE <<Head(t)>> \o RemoveMentions(Tail(t))

\* re.sub('([a-z])([A-Z])', r'\1 \2', hashtag)
RECURSIVE CamelSplit(_)
CamelSplit(t) ==
    IF t = << >> THEN << >>
    ELSE IF Len(t) >= 2 /\ t[1] \in AsciiLower /\ t[2] \in AsciiUpper
         THEN <<t[1], " ">> \o CamelSplit(Tail(t))
         ELSE <<Head(t)>> \o CamelSplit(Tail(t))

\* str.lower()
LowerText(t) == [i \in 1..Len(t) |-> LowerOf(t[i])]

\* Step 4: re.sub(r'#(\w+)', process_hashtag, text)
RECURSIVE ProcessHashtags(_)
ProcessHashtags(t) ==
    IF t = << >> THEN << >>
    ELSE LET n == WordRun(Tail(t))
         IN  IF Head(t) = "#" /\ n > 0
             THEN LowerText(CamelSplit(SubSeq(t, 2, 1 + n)))
                      \o ProcessHashtags(Drop(t, 1 + n))
             ELSE <<Head(t)>> \o ProcessHashtags(Tail(t))

\* the length of the longest prefix of emoji
RECURSIVE EmojiRun(_)
EmojiRun(t) ==
    IF t # << >> /\ IsEmojiChar(Head(t)) THEN 1 + EmojiRun(Tail(t)) ELSE 0

\* Step 5: emoji_pattern.sub(r' ', text)
RECURSIVE RemoveEmoji(_)
RemoveEmoji(t) ==
    IF t = << >> THEN << >>
    ELSE IF IsEmojiChar(Head(t)) THEN <<" ">> \o RemoveEmoji(Drop(t, EmojiRun(t)))
    ELSE <<Head(t)>> \o RemoveEmoji(Tail(t))

\* the length of the run of the first character
RECURSIVE SameRun(_)
SameRun(t) ==
    IF Len(t) >= 2 /\ t[2] = t[1] THEN 1 + SameRun(Tail(t))
    ELSE IF t = << >> THEN 0 ELSE 1

\* Step 7: re.sub(r'(.)\1{3,}', r'\1\1', text)
RECURSIVE SqueezeRepeats(_)
SqueezeRepeats(t) ==
    IF t = << >> THEN << >>
    ELSE IF SameRun(t) >= 4
         THEN <<Head(t), Head(t)>> \o SqueezeRepeats(Drop(t, SameRun(t)))
         ELSE <<Head(t)>> \o SqueezeRepeats(Tail(t))

\* Step 8: re.sub(r'[^\w\s]', ' ', text)
RemoveSpecial(t) ==
    [i \in 1..Len(t) |-> IF IsWordChar(t[i]) \/ IsSpaceChar(t[i]) THEN t[i] ELSE " "]

\* str.split(): the maximal runs of characters that are not whitespace
RECURSIVE SplitFrom(_, _)
SplitFrom(t, word) ==
    IF t = << >> THEN (IF word = << >> THEN << >> ELSE <<word>>)
    ELSE IF IsSpaceChar(Head(t))
         THEN (IF word = << >> THEN << >> ELSE <<word>>) \o SplitFrom(Tail(t), << >>)
         ELSE SplitFrom(Tail(t), Append(word, Head(t)))

Split(t) == SplitFrom(t, << >>)

\* ' '.join(words)
RECURSIVE Join(_)
Join(words) ==
    IF words = << >> THEN << >>
    ELSE IF Len(words) = 1 THEN words[1]
    ELSE words[1] \o <<" ">> \o Join(Tail(words))

\* re.sub(r'\s+', ' ', text)
RECURSIVE CollapseSpaces(_)
CollapseSpaces(t) ==
    IF t = << >> THEN << >>
    ELSE IF Len(t) >= 2 /\ IsSpaceChar(t[1]) /\ IsSpaceChar(t[2])
         THEN CollapseSpaces(Tail(t))
         ELSE <<Head(t)>> \o CollapseSpaces(Tail(t))

\* str.strip()
RECURSIVE StripText(_)
StripText(t) ==
    IF t = << >> THEN << >>
    ELSE IF IsSpaceChar(Head(t)) THEN StripText(Tail(t))
    ELSE IF IsSpaceChar(t[Len(t)]) THEN StripText(SubSeq(t, 1, Len(t) - 1))
    ELSE t

\* Steps 1 to 9, which the three engines share
Clean(eng, t) ==
    LET t1 == ConvertEmoji(eng, t)
        t2 == RemoveWww(eng, RemoveHttp(eng, t1))
        t3 == RemoveMentions(t2)
        t4 == ProcessHashtags(t3)
        t5 == RemoveEmoji(t4)
        t6 == LowerText(t5)
        t7 == SqueezeRepeats(t6)
        t8 == RemoveSpecial(t7)
    IN  StripText(CollapseSpaces(t8))

\* stopwords_id, sentiment_processor.py:159-174, as Python builds it: adjacent
\* string literals with no comma between them are one word ("vionideh",
\* "ataskontol")
sentiment_stopwords_id ==
    {"yang", "dan", "di", "dengan", "untuk", "pada", "adalah", "ini",
     "itu", "dari", "ke", "tidak", "atau", "juga", "akan", "telah",
     "dapat", "ada", "dalam", "saya", "kamu", "dia", "mereka", "kami",
     "sudah", "belum", "masih", "sangat", "sekali", "hanya", "bisa",
     "mau", "ingin", "perlu", "harus", "kak", "ka", "gan", "sis", "bro",
     "min", "admin", "cs", "halo", "hai", "selamat", "pagi", "siang",
     "sore", "malam", "mohon", "tolong", "cek", "thanks", "thx",
     "makasih", "terimakasih", "makasi", "terima", "kasih", "ya", "yah",
     "iya", "ok", "oke", "dong", "nala", "pau", "vionideh", "nih", "sih",
     "loh", "wkwk", "hehe", "hihi", "nya", "kok", "indihome", "kakak",
     "jadi", "ataskontol", "anjing", "bangsat", "bajingan", "memek",
     "pepek", "kampret", "goblok", "tolol", "tai", "brengsek", "jancuk",
     "keparat", "sialan", "perek", "sundal", "lonte", "pelacur", "babi",
     "ajg", "anjng", "anj"}

\* stopwords_id, topic_pillar_processor.py:81-96
topic_stopwords_id ==
    {"yang", "dan", "di", "dengan", "untuk", "pada", "adalah", "ini",
     "itu", "dari", "ke", "tidak", "atau", "juga", "akan", "telah",
     "dapat", "ada", "dalam", "saya", "kamu", "dia", "mereka", "kami",
     "sudah", "belum", "masih", "sangat", "sekali", "hanya", "bisa",
     "mau", "ingin", "perlu", "harus", "kak", "ka", "gan", "sis", "bro",
     "min", "admin", "cs", "halo", "hai", "selamat", "pagi", "siang",
     "sore", "malam", "mohon", "tolong", "cek", "thanks", "thx",
     "makasih", "terimakasih", "makasi", "terima", "kasih", "ya", "yah",
     "iya", "ok", "oke", "dong", "nala", "deh", "nih", "sih", "loh",
     "wkwk", "hehe", "hihi", "nya", "kok", "indihome", "kakak", "jadi",
     "atas", "kontol", "anjing", "bangsat", "bajingan", "memek", "pepek",
     "kampret", "goblok", "tolol", "tai", "brengsek", "jancuk", "keparat",
     "sialan", "perek", "sundal", "lonte", "pelacur", "babi", "ajg",
     "anjng", "anj"}

\* Step 10: [word for word in words if word not in stopwords_id and
\* len(word) > 2], joined by ' '
Filter(t, stopwords_id) ==
    Join(SelectSeq(Split(t),
                   LAMBDA word : Str(word) \notin stopwords_id /\ Len(word) > 2))

\* SentimentProcessor.preprocess_text, sentiment_processor.py:89-180
sentiment_preprocess_text(t) ==
    IF t = << >> THEN << >>
    ELSE Filter(Clean("sentiment", t), sentiment_stopwords_id)

\* EmotionProcessor.preprocess_text, emotion_processor.py:234-445: it returns
\* the cleaned text, no word is dropped
emotion_preprocess_text(t) ==
    IF t = << >> THEN << >>
    ELSE Clean("emotion", t)

\* preprocess_text, topic_pillar_processor.py:17-102
topic_preprocess_text(t) ==
    IF t = << >> THEN << >>
    ELSE Filter(Clean("topic", t), topic_stopwords_id)

\* The pieces raw texts are made of: words (one capitalised, one short, one of
\* the blocklist, one with a long run of a letter), the markers of hashtags,
\* mentions and links, punctuation, a blank, an emoji and two accented
\* characters.
Pieces ==
    {Chars("Bagus"), Chars("di"), Chars("deh"), Chars("kontol"), Chars("haaaa"),
     Chars("#"), Chars("@"), Chars("http://"), Chars("!"), Chars(" "),
     <<FoldedHands>>, Chars("Â³")}

RECURSIVE Concat(_)
Concat(ps) ==
    IF ps = << >> THEN << >> ELSE Head(ps) \o Concat(Tail(ps))

Texts3 ==
    {Concat(ps) : ps \in UNION {[1..n -> Pieces] : n \in 0..MaxPieces}}

NoText == <<"None">>

\* One application of a normalizer to the current text; the engine that ran
\* first is the one that runs again.
SentimentPreprocess ==
    /\ engine \in {"none", "sentiment"}
    /\ applied < MaxPasses
    /\ engine' = "sentiment"
    /\ before' = doc
    /\ doc' = sentiment_preprocess_text(doc)
    /\ applied' = applied + 1
    /\ UNCHANGED notNormVars

EmotionPreprocess ==
    /\ engine \in {"none", "emotion"}
    /\ applied < MaxPasses
    /\ engine' = "emotion"
    /\ before' = doc
    /\ doc' = emotion_preprocess_text(doc)
    /\ applied' = applied + 1
    /\ UNCHANGED notNormVars

TopicPreprocess ==
    /\ engine \in {"none", "topic"}
    /\ applied < MaxPasses
    /\ engine' = "topic"
    /\ before' = doc
    /\ doc' = topic_preprocess_text(doc)
    /\ applied' = applied + 1
    /\ UNCHANGED notNormVars

-----------------------------------------------------------------------------
(* Datasets: upload_dataset, select_dataset, delete_dataset and the files the
   recommendations operation reads *)

\* requests on datasets in flight together
NDataRequests == 2

DataRequests == 1..NDataRequests

\* names of uploaded datasets
DataNames == {"a", "b"}

\* A file of a dataset directory: not there, there and readable, or there
\* and not readable by pandas
FileStates == {"absent", "ok", "bad"}

NoDirectory == [dir |-> FALSE, tweet |-> "absent", replies |-> "absent"]

\* os.path.exists of the directory and of its two files (main.py:565-572)
Complete(d) == d.dir /\ d.tweet # "absent" /\ d.replies # "absent"

NoRequest == [op |-> "none"]

NoSources == [none |-> TRUE]

\* main.py:60-84, get_active_dataset_path: the dataset whose files are read
get_active_dataset_path == ACTIVE_DATASET

\* ---- POST /api/upload-dataset, main.py:467-532 ----

\* :483-493, the name is checked and the directory made. The handler is a coroutine without
\* an await: the event loop runs one upload at a time, while the other
\* handlers run on the threads of the pool.
UploadStart(r) ==
    /\ dpc[r] = "idle"
    /\ \A q \in DataRequests : dpc[q] \notin {"write_tweet", "write_replies"}
    /\ \E n \in DataNames :
          /\ dreq' = [dreq EXCEPT ![r] = [op |-> "upload", name |-> n]]
          /\ datasets' = [datasets EXCEPT ![n].dir = TRUE]
    /\ dpc' = [dpc EXCEPT ![r] = "write_tweet"]
    /\ UNCHANGED <<ACTIVE_DATASET, selected, sources>>
    /\ UNCHANGED notDataVars

\* :504-509, tweet.xlsx is written and read back, readable by pandas or not;
\* a file that cannot be read
\* ends the request with status 500 and stays on storage. A directory removed
\* in the meantime makes open() raise.
UploadTweet(r) ==
    /\ dpc[r] = "write_tweet"
    /\ LET n == dreq[r].name
       IN  IF ~datasets[n].dir
           THEN /\ dpc' = [dpc EXCEPT ![r] = "idle"]
                /\ dreq' = [dreq EXCEPT ![r] = NoRequest]
                /\ UNCHANGED datasets
           ELSE \E t \in {"ok", "bad"} :
                /\ datasets' = [datasets EXCEPT ![n].tweet = t]
                /\ dpc' = [dpc EXCEPT ![r] =
                       IF t = "ok" THEN "write_replies" ELSE "idle"]
                /\ dreq' = [dreq EXCEPT ![r] =
                       IF t = "ok" THEN dreq[r] ELSE NoRequest]
    /\ UNCHANGED <<ACTIVE_DATASET, selected, sources>>
    /\ UNCHANGED notDataVars

\* :511-517, replies.csv is written and read back, then the answer is made
UploadReplies(r) ==
    /\ dpc[r] = "write_replies"
    /\ LET n == dreq[r].name
       IN  IF ~datasets[n].dir
           THEN UNCHANGED datasets
           ELSE \E c \in {"ok", "bad"} :
                    datasets' = [datasets EXCEPT ![n].replies = c]
    /\ dpc' = [dpc EXCEPT ![r] = "idle"]
    /\ dreq' = [dreq EXCEPT ![r] = NoRequest]
    /\ UNCHANGED <<ACTIVE_DATASET, selected, sources>>
    /\ UNCHANGED notDataVars

\* ---- POST /api/select-dataset/{dataset_name}, main.py:535-594 ----

\* :545-548 and :562-572, the existence checks; 404 ends the request. The
\* files of the default dataset are there.
SelectCheck(r) ==
    /\ dpc[r] = "idle"
    /\ \E n \in DataNames \cup {"default"} :
          IF n = "default" \/ Complete(datasets[n])
          THEN /\ dreq' = [dreq EXCEPT ![r] = [op |-> "select", name |-> n]]
               /\ dpc' = [dpc EXCEPT ![r] = "set_active"]
          ELSE UNCHANGED <<dreq, dpc>>
    /\ UNCHANGED <<ACTIVE_DATASET, datasets, selected, sources>>
    /\ UNCHANGED notDataVars

\* :550 and :574, ACTIVE_DATASET = dataset_name
SelectSet(r) ==
    /\ dpc[r] = "set_active"
    /\ dreq[r].op = "select"
    /\ ACTIVE_DATASET' = dreq[r].name
    /\ selected' = "none"
    /\ dpc' = [dpc EXCEPT ![r] = "read_stats"]
    /\ UNCHANGED <<datasets, dreq, sources>>
    /\ UNCHANGED notDataVars

\* :552-562 and :576-587, the two files are read for the counts of the
\* answer; a file that cannot be read ends the request with status 500,
\* else the request succeeds
SelectRead(r) ==
    /\ dpc[r] = "read_stats"
    /\ LET n == dreq[r].name
           readable == n = "default"
                       \/ (datasets[n].tweet = "ok" /\ datasets[n].replies = "ok")
       IN  selected' = IF readable THEN n ELSE selected
    /\ dpc' = [dpc EXCEPT ![r] = "idle"]
    /\ dreq' = [dreq EXCEPT ![r] = NoRequest]
    /\ UNCHANGED <<ACTIVE_DATASET, datasets, sources>>
    /\ UNCHANGED notDataVars

\* ---- DELETE /api/delete-dataset/{dataset_name}, main.py:658-691 ----

\* :667-672, "default" is refused with 400, a missing directory with 404
DeleteCheck(r) ==
    /\ dpc[r] = "idle"
    /\ \E n \in DataNames \cup {"default"} :
          IF n # "default" /\ datasets[n].dir
          THEN /\ dreq' = [dreq EXCEPT ![r] = [op |-> "delete", name |-> n]]
               /\ dpc' = [dpc EXCEPT ![r] = "switch"]
          ELSE UNCHANGED <<dreq, dpc>>
    /\ UNCHANGED <<ACTIVE_DATASET, datasets, selected, sources>>
    /\ UNCHANGED notDataVars

\* :675-676, if ACTIVE_DATASET == dataset_name: ACTIVE_DATASET = "default"
DeleteSwitch(r) ==
    /\ dpc[r] = "switch"
    /\ ACTIVE_DATASET' = IF ACTIVE_DATASET = dreq[r].name
                         THEN "default" ELSE ACTIVE_DATASET
    /\ dpc' = [dpc EXCEPT ![r] = "rmtree"]
    /\ UNCHANGED <<datasets, dreq, selected, sources>>
    /\ UNCHANGED notDataVars

\* :679, shutil.rmtree(dataset_dir); on a directory already removed it
\* raises and the request ends with status 500
DeleteTree(r) ==
    /\ dpc[r] = "rmtree"
    /\ LET n == dreq[r].name
       IN  /\ datasets' = [datasets EXCEPT ![n] = NoDirectory]
           /\ selected' = IF datasets[n].dir /\ selected = n
                          THEN "none" ELSE selected
    /\ dpc' = [dpc EXCEPT ![r] = "idle"]
    /\ dreq' = [dreq EXCEPT ![r] = NoRequest]
    /\ UNCHANGED <<ACTIVE_DATASET, sources>>
    /\ UNCHANGED notDataVars

\* ---- GET /api/recommendations, main.py:711-734: the files read ----

\* data_processor.py:33-46, load_tweet_data and load_replies_csv read
\* f"{self.data_path}/..." of the processor made at main.py:64 with DATA_PATH:
\* the files of the default dataset
dp_data_path == "default"

\* The dataset each of the five reports is computed from: the replies file
\* (:713) labelled by the sentiment and emotion engines (:718, :724), the
\* tweet file given to analyze_topic_pillars (:728), and what the shared
\* DataProcessor reads (:731, :734). A file of the active dataset that is
\* missing or cannot be read raises and the request answers with an error.
ReadReports(r) ==
    /\ dpc[r] = "idle"
    /\ LET n == get_active_dataset_path
           readable == n = "default"
                       \/ (datasets[n].tweet = "ok" /\ datasets[n].replies = "ok")
       IN  sources' = IF ~readable THEN [error |-> "exception"]
                      ELSE [sentiment |-> n, emotion |-> n, topics |-> n,
                            engagement |-> dp_data_path, peak |-> dp_data_path,
                            selected |-> selected,
                            quiet |-> \A q \in DataRequests : dpc[q] = "idle"]
    /\ UNCHANGED <<ACTIVE_DATASET, datasets, dpc, dreq, selected>>
    /\ UNCHANGED notDataVars

DataStep(r) ==
    \/ UploadStart(r)
    \/ UploadTweet(r)
    \/ UploadReplies(r)
    \/ SelectCheck(r)
    \/ SelectSet(r)
    \/ SelectRead(r)
    \/ DeleteCheck(r)
    \/ DeleteSwitch(r)
    \/ DeleteTree(r)
    \/ ReadReports(r)

-----------------------------------------------------------------------------
(* Engagement by day of week: DataProcessor.get_engagement_by_day *)

\* data_processor.py:108
day_names ==
    << "Monday", "Tuesday", "Wednesday", "Thursday", "Friday", "Saturday",
       "Sunday" >>

\* The Date cells of the model: two posts of Monday 17 November 2025, a post
\* of Tuesday 18, a post of Sunday 23, a text that is no date, an empty cell
DateCells ==
    {"2025-11-17T10:00:00+07:00",
     "2025-11-17T18:30:00+07:00",
     "2025-11-18T09:00:00+07:00",
     "2025-11-23T21:15:00+07:00",
     "not a date",
     NaN}

\* rows of tweet.xlsx with the four columns get_engagement_by_day reads
DayPosts ==
    [Date : DateCells, Likes : {0, 3}, Replies : {0, 2}, Retweets : {1}]

DayTables == UNION {[1..n -> DayPosts] : n \in 0..MaxPosts}

\* the None of parse_iso_date, written as a date that no calendar has
NoTimestamp == [year |-> 0, month |-> 0, day |-> 0]

\* data_processor.py:95-100, pd.to_datetime of a cell: the calendar date of
\* a text that starts with YYYY-MM-DD, None when pandas raises. An empty
\* cell gives NaT, whose dayofweek is no index of day_names (:115 raises and
\* :118 passes): no timestamp as well.
parse_iso_date(date_str) ==
    IF date_str = NaN \/ Len(date_str) < 10 THEN NoTimestamp
    ELSE LET y == SubSeq(date_str, 1, 4)
             mo == SubSeq(date_str, 6, 7)
             d == SubSeq(date_str, 9, 10)
         IN  IF /\ IsInt(y) /\ IsInt(mo) /\ IsInt(d)
                /\ SubSeq(date_str, 5, 5) = "-" /\ SubSeq(date_str, 8, 8) = "-"
                /\ ToInt(mo) \in 1..12 /\ ToInt(d) \in 1..31
             THEN [year |-> ToInt(y), month |-> ToInt(mo), day |-> ToInt(d)]
             ELSE NoTimestamp

\* Timestamp.dayofweek, Monday = 0, of a calendar date
dayofweek(dt) ==
    LET t == << 0, 3, 2, 5, 0, 3, 5, 1, 4, 6, 2, 4 >>
        y == IF dt.month < 3 THEN dt.year - 1 ELSE dt.year
        sunday0 == (y + (y \div 4) - (y \div 100) + (y \div 400)
                    + t[dt.month] + dt.day) % 7
    IN  (sunday0 + 6) % 7

\* Likes + Replies + Retweets of one row
RowEngagement(post) == post.Likes + post.Replies + post.Retweets

\* :116, df[df['Date'] == date_str][['Likes', 'Replies', 'Retweets']].sum().sum():
\* the engagement of every row whose Date cell equals date_str
RECURSIVE EngagementOfDate(_, _)
EngagementOfDate(df, date_str) ==
    IF df = << >> THEN 0
    ELSE (IF Head(df).Date = date_str THEN RowEngagement(Head(df)) ELSE 0)
         + EngagementOfDate(Tail(df), date_str)

\* :111-119, the loop over df['Date'] for the total of one day: every row of
\* that day adds EngagementOfDate of its own cell
RECURSIVE DayLoop(_, _, _)
DayLoop(df, i, day) ==
    IF i > Len(df) THEN 0
    ELSE LET dt == parse_iso_date(df[i].Date)
         IN  (IF dt # NoTimestamp /\ dayofweek(dt) + 1 = day
              THEN EngagementOfDate(df, df[i].Date) ELSE 0)
             + DayLoop(df, i + 1, day)

\* data_processor.py:102-121
get_engagement_by_day(df) ==
    IF df = << >> THEN EmptyDict
    ELSE [d \in {day_names[k] : k \in 1..7} |->
             DayLoop(df, 1, CHOOSE k \in 1..7 : day_names[k] = d)]

\* called for the overview at main.py:363
EngagementByDay ==
    /\ answer = NoAnswer
    /\ answer' = [op |-> "get_engagement_by_day",
                  value |-> get_engagement_by_day(tweet_df)]
    /\ UNCHANGED <<tweet_df, replies_df>>
    /\ UNCHANGED notAggVars

-----------------------------------------------------------------------------
(* A dataframe of replies through analyze_dataframe and generate_*_report *)

\* rows of a dataframe of replies
MaxFrame == 2

\* The full_text cells of the model: texts either normalizer keeps, a text
\* of stopwords (the sentiment normalizer empties it, the emotion normalizer
\* keeps it), an emoji (the other way round), a mention and a link, marks,
\* and an empty cell
FrameTexts ==
    {Chars("Bagus"), Chars("jelek"), Chars("ya"), <<FoldedHands>>,
     Chars("@u http://x"), Chars("!!"), << >>}

Frames == UNION {[1..n -> FrameTexts] : n \in 0..MaxFrame}

\* (a dataframe that keeps the rows whose cleaned text is empty)
AllRows(cleaned) ==
    [i \in 1..Len(cleaned) |-> [index |-> i, cleaned_text |-> cleaned[i]]]

\* df = df[df['cleaned_text'].str.len() > 0].copy(), sentiment_processor.py:259
\* and emotion_processor.py:503: the rows kept, each under its index
NonEmptyRows(cleaned) ==
    SelectSeq([i \in 1..Len(cleaned) |->
                  [index |-> i, cleaned_text |-> cleaned[i]]],
              LAMBDA row : Len(row.cleaned_text) > 0)

\* df['sentiment'] = ... / df['emotion'] = ...: one label on each row
Labelled(df, labels) ==
    [i \in 1..Len(df) |->
        [index |-> df[i].index, cleaned_text |-> df[i].cleaned_text,
         label |-> labels[i]]]

\* SentimentProcessor.analyze_dataframe, sentiment_processor.py:255-298, and
\* generate_sentiment_report of what it returned (main.py:314-317). The rows
\* are labelled by the classifier, which gives each row one of its classes,
\* or by the lexicon; on a dataframe without rows fit_transform and
\* transform raise and the lexicon labels it.
SentimentAnalysis ==
    /\ report = NoReport
    /\ LET cleaned == [i \in 1..Len(full_text) |->
                          sentiment_preprocess_text(full_text[i])]
           df == NonEmptyRows(cleaned)
       IN  \E predictions \in [1..Len(df) -> SentimentLabels],
              used \in {"model", "fallback"} :
               /\ used = "model" => Len(df) > 0
               /\ used = "fallback" =>
                      \A i \in 1..Len(df) :
                          predictions[i]
                              = _fallback_sentiment(Str(df[i].cleaned_text))
               /\ analysed' = Labelled(df, predictions)
               /\ report' = generate_sentiment_report(predictions)
    /\ UNCHANGED <<full_text, column>>
    /\ UNCHANGED <<sentVars, lexVars, recVars, peakVars, opVars, aggVars,
                   normVars, dataVars, metaVars>>

\* EmotionProcessor.analyze_dataframe, emotion_processor.py:486-508, and
\* generate_emotion_report of what it returned (main.py:341-344)
EmotionAnalysis ==
    /\ report = NoReport
    /\ LET cleaned == [i \in 1..Len(full_text) |->
                          emotion_preprocess_text(full_text[i])]
           df == NonEmptyRows(cleaned)
           predictions == [i \in 1..Len(df) |->
                              predict_emotion(Str(df[i].cleaned_text))]
       IN  /\ analysed' = Labelled(df, predictions)
           /\ report' = generate_emotion_report(predictions)
    /\ UNCHANGED <<full_text, column>>
    /\ UNCHANGED <<sentVars, lexVars, recVars, peakVars, opVars, aggVars,
                   normVars, dataVars, metaVars>>

-----------------------------------------------------------------------------
(* Specifications *)

SentInit ==
    /\ sentiment_processor = "None"
    /\ modelFile \in {"absent", "ok", "corrupt"}
    /\ vecFile \in {"absent", "trained", "corrupt"}
    /\ model = "None"
    /\ vectorizer = "None"
    /\ model_loaded = FALSE
    /\ pc = [r \in Requests |-> "idle"]
    /\ batch = [r \in Requests |-> "empty"]
    /\ existsSeen = [r \in Requests |-> FALSE]
    /\ strategy = [r \in Requests |-> "none"]
    /\ raised = [r \in Requests |-> FALSE]
    /\ callNo = [r \in Requests |-> 0]
    /\ start = [model |-> "absent", vec |-> "absent", strategy |-> "fallback"]
    /\ calls = 0
    /\ fitCalls = {}
    /\ sentiment_method = [r \in Requests |-> NoMetadata]

LexIdle ==
    /\ op = "none"
    /\ input = ""
    /\ label = "none"

RepIdle ==
    /\ column = <<>>
    /\ report = NoReport

RecIdle ==
    /\ sentiment_data = EmptyDict
    /\ emotion_data = EmptyDict
    /\ topic_data = EmptyDict
    /\ engagement_data = EmptyDict
    /\ peak_hours_data = EmptyDict
    /\ result = NoResult
    /\ scores = NoScores

PeakIdle ==
    /\ created_at = << >>
    /\ peak = NoPeak
    /\ skCalls = {}

OpIdle ==
    /\ failures = {}
    /\ response = NoResponse

AggIdle ==
    /\ tweet_df = << >>
    /\ replies_df = << >>
    /\ answer = NoAnswer

NormIdle ==
    /\ doc = << >>
    /\ before = NoText
    /\ engine = "none"
    /\ applied = 0

PipeIdle ==
    /\ full_text = << >>
    /\ analysed = << >>

\* main.py:61 and an empty datasets directory
DataIdle ==
    /\ ACTIVE_DATASET = "default"
    /\ datasets = [n \in DataNames |-> NoDirectory]
    /\ dpc = [r \in DataRequests |-> "idle"]
    /\ dreq = [r \in DataRequests |-> NoRequest]
    /\ selected = "none"
    /\ sources = NoSources

Init ==
    /\ SentInit /\ LexIdle /\ RepIdle /\ RecIdle /\ PeakIdle /\ OpIdle /\ AggIdle
    /\ NormIdle
    /\ DataIdle /\ PipeIdle

\* The server runs its synchronous endpoints on a pool of threads: requests
\* interleave at every step.
Next ==
    \/ load_sentiment_processor
    \/ \E r \in Requests : Step(r)

Spec == Init /\ [][Next]_vars

\* One request at a time: a call starts only when no other is under way.
Quiet(r) == \A q \in Requests \ {r} : pc[q] = "idle" /\ Reported(q)

NextSeq ==
    \/ load_sentiment_processor
    \/ \E r \in Requests : Quiet(r) /\ Step(r)

SpecSeq == Init /\ [][NextSeq]_vars

\* The lexicon classifiers as functions of their argument; the processor
\* rests as the module leaves it at import.
SentIdle ==
    /\ SentInit
    /\ modelFile = "absent"
    /\ vecFile = "absent"

InitLex ==
    /\ SentIdle
    /\ NormIdle
    /\ DataIdle /\ PipeIdle
    /\ op = "none"
    /\ input \in Texts
    /\ label = "none"
    /\ RepIdle
    /\ RecIdle
    /\ PeakIdle
    /\ OpIdle
    /\ AggIdle

NextLex ==
    \/ FallbackSentimentCall
    \/ PredictEmotionCall

SpecLex == InitLex /\ [][NextLex]_vars

\* The reports as functions of the labelled dataframe they are given.
InitReport ==
    /\ SentIdle
    /\ NormIdle
    /\ DataIdle /\ PipeIdle
    /\ LexIdle
    /\ column \in Columns(SentimentLabels) \cup Columns(EmotionLabels)
    /\ report = NoReport
    /\ RecIdle
    /\ PeakIdle
    /\ OpIdle
    /\ AggIdle

NextReport ==
    \/ SentimentReport
    \/ EmotionReport

SpecReport == InitReport /\ [][NextReport]_vars

\* generate_recommendations as a function of the five reports it is given.
InitRec ==
    /\ SentIdle
    /\ NormIdle
    /\ DataIdle /\ PipeIdle
    /\ LexIdle
    /\ RepIdle
    /\ sentiment_data \in SentimentReports
    /\ emotion_data \in EmotionReports
    /\ topic_data \in TopicReports
    /\ engagement_data \in EngagementReports
    /\ peak_hours_data \in PeakHourReports
    /\ result = NoResult
    /\ scores = NoScores
    /\ PeakIdle
    /\ OpIdle
    /\ AggIdle

NextRec == GenerateRecommendations

SpecRec == InitRec /\ [][NextRec]_vars

\* _calculate_performance_score as a function of the three reports it reads.
InitScore ==
    /\ SentIdle
    /\ NormIdle
    /\ DataIdle /\ PipeIdle
    /\ LexIdle
    /\ RepIdle
    /\ PeakIdle
    /\ OpIdle
    /\ AggIdle
    /\ sentiment_data \in ScoreSentimentReports
    /\ emotion_data \in ScoreEmotionReports
    /\ topic_data = EmptyDict
    /\ engagement_data \in ScoreEngagementReports
    /\ peak_hours_data = EmptyDict
    /\ result = NoResult
    /\ scores = NoScores

NextScore == CalculatePerformanceScore

SpecScore == InitScore /\ [][NextScore]_vars

\* get_peak_activity_hours as a function of the replies it reads.
InitPeak ==
    /\ SentIdle
    /\ NormIdle
    /\ DataIdle /\ PipeIdle
    /\ LexIdle
    /\ RepIdle
    /\ RecIdle
    /\ created_at \in ReplyDates
    /\ peak = NoPeak
    /\ skCalls = {}
    /\ OpIdle
    /\ AggIdle

NextPeak == get_peak_activity_hours

SpecPeak == InitPeak /\ [][NextPeak]_vars

\* A request for recommendations, any of its engines failing.
InitOp ==
    /\ SentIdle
    /\ NormIdle
    /\ DataIdle /\ PipeIdle
    /\ LexIdle
    /\ RepIdle
    /\ PeakIdle
    /\ sentiment_data \in OpSentimentReports
    /\ emotion_data \in OpEmotionReports
    /\ topic_data \in OpTopicReports
    /\ engagement_data \in EngagementReports
    /\ peak_hours_data \in OpPeakHourReports
    /\ result = NoResult
    /\ scores = NoScores
    /\ failures \in SUBSET Engines
    /\ response = NoResponse
    /\ AggIdle

NextOp == get_recommendations

SpecOp == InitOp /\ [][NextOp]_vars

\* The aggregations as functions of the posts and the replies they read.
InitAgg ==
    /\ SentIdle
    /\ NormIdle
    /\ DataIdle /\ PipeIdle
    /\ LexIdle
    /\ RepIdle
    /\ RecIdle
    /\ PeakIdle
    /\ OpIdle
    /\ tweet_df \in TweetTables
    /\ replies_df \in ReplyTables
    /\ answer = NoAnswer

NextAgg ==
    \/ BasicStatistics
    \/ StatisticsWithDelta
    \/ EngagementByType
    \/ TopicEngagement

SpecAgg == InitAgg /\ [][NextAgg]_vars

\* The engagement by day as a function of the posts it reads.
InitDay ==
    /\ SentIdle
    /\ NormIdle
    /\ DataIdle /\ PipeIdle
    /\ LexIdle
    /\ RepIdle
    /\ RecIdle
    /\ PeakIdle
    /\ OpIdle
    /\ tweet_df \in DayTables
    /\ replies_df = << >>
    /\ answer = NoAnswer

NextDay == EngagementByDay

SpecDay == InitDay /\ [][NextDay]_vars

\* A raw text, and a normalizer applied to it once and then to its own output
InitNorm ==
    /\ SentIdle /\ LexIdle /\ RepIdle /\ RecIdle /\ PeakIdle /\ OpIdle
    /\ AggIdle /\ DataIdle /\ PipeIdle
    /\ doc \in Texts3
    /\ before = NoText
    /\ engine = "none"
    /\ applied = 0

NextNorm ==
    \/ SentimentPreprocess
    \/ EmotionPreprocess
    \/ TopicPreprocess

SpecNorm == InitNorm /\ [][NextNorm]_vars

\* The requests on datasets, served by the event loop and the threads of the
\* pool: they interleave at every step.
InitData ==
    /\ SentIdle /\ LexIdle /\ RepIdle /\ RecIdle /\ PeakIdle /\ OpIdle
    /\ AggIdle /\ NormIdle /\ DataIdle /\ PipeIdle

NextData == \E r \in DataRequests : DataStep(r)

\* A dataframe of replies analysed and reported by one of the two engines.
InitPipe ==
    /\ SentIdle /\ LexIdle /\ RepIdle /\ RecIdle /\ PeakIdle /\ OpIdle
    /\ AggIdle /\ NormIdle
    /\ ACTIVE_DATASET = "default"
    /\ datasets = [n \in DataNames |-> NoDirectory]
    /\ dpc = [r \in DataRequests |-> "idle"]
    /\ dreq = [r \in DataRequests |-> NoRequest]
    /\ selected = "none"
    /\ sources = NoSources
    /\ full_text \in Frames
    /\ analysed = << >>

NextPipe ==
    \/ SentimentAnalysis
    \/ EmotionAnalysis

SpecPipe == InitPipe /\ [][NextPipe]_vars

SpecData == InitData /\ [][NextData]_vars

\* The same requests made one after the other
QuietData(r) == \A q \in DataRequests \ {r} : dpc[q] = "idle"

NextDataSeq == \E r \in DataRequests : QuietData(r) /\ DataStep(r)

SpecDataSeq == InitData /\ [][NextDataSeq]_vars

-----------------------------------------------------------------------------
(* The shared SentimentProcessor: claims C1 - C5 *)

Started == sentiment_processor # "None"

\* C1: while the vectorizer is unfitted, the fit-and-persist step of
\* analyze_dataframe (:263-276) is executed by at most one request at a time:
\* no two requests are inside it together.
C1_SingleFitter ==
    \A r1, r2 \in Requests :
        (pc[r1] \in FitSection /\ pc[r2] \in FitSection) => r1 = r2

\* C2: over calls made one after the other, a processor that starts with a
\* classifier and no fitted vectorizer fits the vectorizer once, on its first
\* batch, and never again: no second call fits it.
C2_FitNeverRepeated ==
    (Started /\ start.model = "ok" /\ start.vec \notin Fits)
        => Cardinality(fitCalls) <= 1

\* C3 as stated: with the classifier artifact or the vectorizer artifact
\* missing or unloadable at startup, every classification is made by the
\* lexicon fallback.
C3_FallbackWhenEitherMissing ==
    (Started /\ (start.model # "ok" \/ start.vec \notin Fits))
        => \A r \in Requests : strategy[r] # "model"

\* C3 as amended: startup completes whatever is on storage, and with the
\* classifier artifact missing or unloadable every classification
\* (predict_sentiment and analyze_dataframe) is made by the lexicon fallback.
C3_FallbackWhenClassifierMissing ==
    /\ ~Started => ENABLED load_sentiment_processor
    /\ (Started /\ start.model # "ok")
          => /\ model = "None"
             /\ \A r \in Requests : strategy[r] # "model"

\* a request finished an analyze_dataframe call of a processor whose
\* classifier file could not be loaded
C3_Witness ==
    /\ Started
    /\ start.model = "corrupt"
    /\ \E r \in Requests :
          callNo[r] > 0 /\ pc[r] = "idle" /\ strategy[r] = "fallback"

\* C4 as stated: every classification is labelled by the strategy chosen at
\* construction.
C4_StrategyFixedAtStartup ==
    \A r \in Requests : strategy[r] # "none" => strategy[r] = start.strategy

\* C4 as amended: a processor constructed on the trained model labels by the
\* lexicon only the calls whose transform or prediction raised; a processor
\* constructed on the lexicon labels by the trained model only if it holds
\* the classifier and an analyze_dataframe call has fitted the vectorizer.
C4_StrategyChangesOnlyByLazyFitOrException ==
    \A r \in Requests :
        /\ (start.strategy = "model" /\ strategy[r] = "fallback") => raised[r]
        /\ (start.strategy = "fallback" /\ strategy[r] = "model")
              => /\ start.model = "ok"
                 /\ fitCalls # {}
                 /\ vectorizer \in Batches

\* the strategy has changed: a processor constructed on the lexicon has
\* labelled a call by the trained model and holds model_loaded
C4_Witness ==
    /\ Started
    /\ start.strategy = "fallback"
    /\ model_loaded
    /\ \E r \in Requests : strategy[r] = "model" /\ pc[r] = "idle"

\* C5: joblib.dump at :269 runs only when no vectorizer artifact exists on
\* storage, so an existing artifact is never overwritten.
C5_ArtifactNeverOverwritten ==
    [][\A r \in Requests :
          (pc[r] = "dump" /\ pc'[r] # "dump") => vecFile = "absent"]_vars

-----------------------------------------------------------------------------
(* The lexicon classifiers: claims C6 - C8 *)

\* What the claims call a trigger phrase occurring in a text, said character
\* by character.
Char(s, i) == SubSeq(s, i, i)

OccursAt(p, t, i) ==
    /\ i + Len(p) - 1 <= Len(t)
    /\ \A k \in 1..Len(p) : Char(t, i + k - 1) = Char(p, k)

Occurs(p, t) == \E i \in 1..Len(t) : OccursAt(p, t, i)

\* an occurrence with a space or an end of the text on either side
Delimited(p, t) ==
    \E i \in 1..Len(t) :
        /\ OccursAt(p, t, i)
        /\ (i = 1 \/ Char(t, i - 1) = " ")
        /\ (i + Len(p) - 1 = Len(t) \/ Char(t, i + Len(p)) = " ")

Triggers(words, t) == Cardinality({i \in 1..Len(words) : Occurs(words[i], t)})

\* C6: the lexicon fallback is positive when the text holds more positive
\* than negative trigger phrases, negative when it holds more negative ones,
\* neutral when it holds as many of each (0 and 0 included); one positive
\* trigger and no negative one give positive.
C6_FallbackComparesTriggerCounts ==
    op = "_fallback_sentiment" =>
        LET pos == Triggers(positive_words, Lower(input))
            neg == Triggers(negative_words, Lower(input))
        IN  /\ pos > neg => label = "positive"
            /\ neg > pos => label = "negative"
            /\ pos = neg => label = "neutral"
            /\ (pos = 1 /\ neg = 0) => label = "positive"
            /\ (pos = 0 /\ neg = 0) => label = "neutral"

\* a text with exactly one positive trigger and no negative one was labelled
C6_Witness ==
    /\ op = "_fallback_sentiment"
    /\ Triggers(positive_words, Lower(input)) = 1
    /\ Triggers(negative_words, Lower(input)) = 0
    /\ label = "positive"

\* The order of the categories the claims give.
CategoryOrder == << "joy", "anger", "sadness", "fear", "surprise", "disgust" >>

\* A category's score counted over the entries of its list: 2 for an entry
\* that occurs space-delimited, 1 for one that occurs only inside a word.
EntryScore(c, t) ==
    LET L == emotion_lexicons[c]
    IN  2 * Cardinality({i \in 1..Len(L) : Delimited(L[i], t)})
        + Cardinality({i \in 1..Len(L) : Occurs(L[i], t) /\ ~Delimited(L[i], t)})

\* The same counted over the phrases of the list, each phrase once.
PhraseScore(c, t) ==
    LET P == {emotion_lexicons[c][i] : i \in 1..Len(emotion_lexicons[c])}
    IN  2 * Cardinality({p \in P : Delimited(p, t)})
        + Cardinality({p \in P : Occurs(p, t) /\ ~Delimited(p, t)})

Largest(f) == CHOOSE m \in {f[x] : x \in DOMAIN f} : \A x \in DOMAIN f : f[x] <= m

Least(S) == CHOOSE i \in S : \A j \in S : i <= j

\* C7: when two or more categories share the maximal nonzero score,
\* predict_emotion returns the one that comes first in the order joy, anger,
\* sadness, fear, surprise, disgust.
C7_TieGoesToFirstInOrder ==
    op = "predict_emotion" =>
        LET sc == [i \in 1..Len(CategoryOrder) |->
                      EntryScore(CategoryOrder[i], Lower(input))]
            tied == {i \in DOMAIN sc : sc[i] = Largest(sc)}
        IN  (Largest(sc) > 0 /\ Cardinality(tied) >= 2)
                => label = CategoryOrder[Least(tied)]

\* joy and a later category shared the maximal score, and joy was returned
C7_Witness ==
    /\ op = "predict_emotion"
    /\ label = "joy"
    /\ EntryScore("joy", Lower(input)) > 0
    /\ \E c \in {"anger", "sadness", "fear", "surprise", "disgust"} :
          EntryScore(c, Lower(input)) = EntryScore("joy", Lower(input))
    /\ \A c \in {"anger", "sadness", "fear", "surprise", "disgust"} :
          EntryScore(c, Lower(input)) <= EntryScore("joy", Lower(input))

\* C8: predict_emotion scores a category by its trigger phrases, 2 for a
\* phrase that occurs space-delimited and 1 for a phrase that occurs only as
\* a substring, and returns a category of highest score, or neutral when
\* every score is 0 or the text is empty.
C8_HighestPhraseScoreWins ==
    op = "predict_emotion" =>
        LET sc == [c \in {CategoryOrder[i] : i \in 1..Len(CategoryOrder)} |->
                      PhraseScore(c, Lower(input))]
        IN  IF Len(input) = 0 \/ Largest(sc) = 0
            THEN label = "neutral"
            ELSE label \in DOMAIN sc /\ sc[label] = Largest(sc)

\* The statement of C8 with every entry of a list counted, an entry written
\* twice counting twice: this is what the code computes.
C8_HighestEntryScoreWins ==
    op = "predict_emotion" =>
        LET sc == [c \in {CategoryOrder[i] : i \in 1..Len(CategoryOrder)} |->
                      EntryScore(c, Lower(input))]
        IN  IF Len(input) = 0 \/ Largest(sc) = 0
            THEN label = "neutral"
            ELSE label \in DOMAIN sc /\ sc[label] = Largest(sc)

-----------------------------------------------------------------------------
(* The reports: claim C9 *)

RECURSIVE SumOver(_, _)
SumOver(f, S) ==
    IF S = {} THEN 0
    ELSE LET x == CHOOSE y \in S : TRUE
         IN  f[x] + SumOver(f, S \ {x})

ReportDistribution ==
    IF "sentiment_distribution" \in DOMAIN report
    THEN report.sentiment_distribution
    ELSE report.emotion_distribution

\* C9: in a sentiment or emotion report the counts of the distribution sum
\* to total_analyzed, every row is counted under its own label, and each
\* percentage (in hundredths) is the hundredth nearest to count / total * 100.
C9_DistributionSumsToTotal ==
    report # NoReport =>
        LET dist == ReportDistribution
            counts == [l \in DOMAIN dist |-> dist[l].count]
        IN  /\ SumOver(counts, DOMAIN dist) = report.total_analyzed
            /\ report.total_analyzed = Len(column)
            /\ \A l \in DOMAIN dist :
                  LET d == dist[l].percentage * report.total_analyzed
                           - 10000 * dist[l].count
                  IN  /\ 2 * d <= report.total_analyzed
                      /\ -2 * d <= report.total_analyzed

\* a report over three rows of two labels: 66.67 % and 33.33 %
C9_Witness ==
    /\ report # NoReport
    /\ report.total_analyzed = 3
    /\ \E l1, l2 \in DOMAIN ReportDistribution :
          /\ ReportDistribution[l1] = [count |-> 2, percentage |-> 6667]
          /\ ReportDistribution[l2] = [count |-> 1, percentage |-> 3333]

-----------------------------------------------------------------------------
(* The recommendations: claim C10 *)

PriorityOrder == << "critical", "high", "medium", "low" >>

EngineOrder == << "Sentiment", "Emotion", "Topics", "Engagement", "Timing" >>

IndexIn(seq, x) == CHOOSE i \in 1..Len(seq) : seq[i] = x

Returned == "recommendations" \in DOMAIN result

GeneratedNow ==
    Generated(sentiment_data, emotion_data, topic_data, engagement_data,
              peak_hours_data)

OfPriority(recs, p) ==
    LET Has(r) == r.priority = p
    IN  SelectSeq(recs, Has)

\* C10: the recommendations returned are in the order critical, high, medium,
\* low whatever the order of generation, and those of one priority are in
\* their order of generation: engine after engine (sentiment, emotion,
\* topics, engagement, timing), and inside an engine in rule order.
C10_SortedByPriorityStable ==
    Returned =>
        LET out == result.recommendations
        IN  /\ \A i, j \in 1..Len(out) :
                  i < j => /\ IndexIn(PriorityOrder, out[i].priority)
                                <= IndexIn(PriorityOrder, out[j].priority)
                           /\ out[i].priority = out[j].priority
                                => IndexIn(EngineOrder, out[i].category)
                                     <= IndexIn(EngineOrder, out[j].category)
            /\ \A k \in 1..Len(PriorityOrder) :
                  OfPriority(out, PriorityOrder[k])
                      = OfPriority(GeneratedNow, PriorityOrder[k])

\* a critical recommendation generated last of its engine, behind a high one
\* of an earlier engine, was returned first; and two of one priority and one
\* engine were returned in rule order
C10_Witness ==
    /\ Returned
    /\ \E i, j \in 1..Len(GeneratedNow) :
          /\ i < j
          /\ GeneratedNow[i] = Rec("Sentiment", "high", "Low Positive Sentiment")
          /\ GeneratedNow[j] = Rec("Emotion", "critical", "Disgust/Strong Negative Reactions")
    /\ result.recommendations[1].priority = "critical"
    /\ \E i, j \in 1..Len(result.recommendations) :
          /\ i < j
          /\ result.recommendations[i].title = "High Anger Levels Detected"
          /\ result.recommendations[j].title = "Disgust/Strong Negative Reactions"
    /\ \E i \in 1..Len(result.recommendations) :
          result.recommendations[i].priority = "low"

-----------------------------------------------------------------------------
(* Activity clustering: claim C11 *)

DistinctHours == {created_at[i] : i \in 1..Len(created_at)} \ {Unparsable}

\* C11: whenever the parsable timestamps of the replies cover 0 or 1 distinct
\* hours of the day, however many replies there are, get_peak_activity_hours
\* returns the insufficient-data result and runs neither the clustering nor
\* the projection. (Stated for replies that hold a row; without a row the
\* call returns the empty result of a missing file.)
C11_NoClusteringUnderTwoHours ==
    (peak # NoPeak /\ created_at # << >> /\ Cardinality(DistinctHours) <= 1) =>
        /\ peak = NotEnoughData
        /\ skCalls \cap {"DBSCAN", "PCA"} = {}

-----------------------------------------------------------------------------
(* The request for recommendations: claim C12 *)

\* the reports that reach the synthesizer hold no empty distribution
UsableReports == ~InsightsRaise(sentiment_data, emotion_data)

\* C12: in the recommendations operation a failure inside one engine does not
\* keep the synthesizer from running on the reports of the others: the
\* response still carries insights, recommendations and a performance score.
C12_EngineFailureDoesNotStopSynthesis ==
    (response # NoResponse /\ Cardinality(failures) = 1 /\ UsableReports) =>
        {"insights", "recommendations", "performance_score"} \subseteq DOMAIN response

-----------------------------------------------------------------------------
(* The synthesizer on absent and empty reports: claim C13 *)

\* C13: generate_recommendations never raises and returns its full result
\* structure whatever reports are absent, lack their keys or carry an empty
\* distribution or an empty list under the expected key.
C13_NeverRaisesOnDegenerateReports ==
    result # NoResult =>
        /\ "error" \notin DOMAIN result
        /\ {"insights", "recommendations", "priority_actions",
            "performance_score", "total_recommendations"} \subseteq DOMAIN result

-----------------------------------------------------------------------------
(* Posts without a usable identifier: claim C14 *)

\* the identifier of a post as an integer, where its permalink gives one
HasId(post, Id(_)) == Id(post.Permalink) # None /\ IsInt(Id(post.Permalink))

\* the replies matched to the posts that have an integer identifier
MatchedReplies(Id(_)) ==
    LET good == SelectSeq(tweet_df, LAMBDA p : HasId(p, Id))
        R(p) == Cardinality({i \in 1..Len(replies_df) :
                                replies_df[i] = ToInt(Id(p.Permalink))})
    IN  SumOf(R, good)

\* C14: in every aggregation that matches replies to posts, a post whose
\* identifier is missing or is no integer adds 0 replies, no exception
\* escapes, and the totals of the other posts are still computed and reported.
C14_BadIdentifierContributesZero ==
    /\ answer.op \in {"get_basic_statistics", "get_statistics_with_delta"}
         => (tweet_df # << >>
               => /\ answer.value # EmptyDict
                  /\ answer.value.total_posts = Len(tweet_df)
                  /\ answer.value.total_likes = LikesOfPost * Len(tweet_df)
                  /\ answer.value.total_replies
                       = MatchedReplies(get_tweet_id_from_permalink))
    /\ answer.op = "get_engagement_by_type"
         => (tweet_df # << >>
               => /\ answer.value # << >>
                  /\ SumSeq([i \in 1..Len(answer.value) |-> answer.value[i].likes])
                       = LikesOfPost * Len(tweet_df)
                  /\ SumSeq([i \in 1..Len(answer.value) |-> answer.value[i].replies])
                       = MatchedReplies(get_tweet_id_from_permalink))
    /\ answer.op = "topic_engagement"
         => /\ SumSeq([i \in 1..Len(answer.value) |-> answer.value[i].total_likes])
                 = LikesOfPost * Len(tweet_df)
            /\ SumSeq([i \in 1..Len(answer.value) |-> answer.value[i].total_replies])
                 = MatchedReplies(extract_id_from_permalink)

\* The part of C14 about topic engagement, which holds.
C14_TopicEngagementCountsBadIdentifierAsZero ==
    answer.op = "topic_engagement"
        => /\ SumSeq([i \in 1..Len(answer.value) |-> answer.value[i].total_likes])
                = LikesOfPost * Len(tweet_df)
           /\ SumSeq([i \in 1..Len(answer.value) |-> answer.value[i].total_replies])
                = MatchedReplies(extract_id_from_permalink)

-----------------------------------------------------------------------------
(* The performance score: claims C15, C16, C17 *)

\* Scores are compared in tenths of a point and percentages in hundredths of
\* a percent, the units the model keeps them in.

Scored == scores # NoScores

\* the posts and the engagement the average is taken of
PostsOf(gd) == IF "total_posts" \in DOMAIN gd THEN gd.total_posts ELSE 1

EngagementOf(gd) == IF "total_engagement" \in DOMAIN gd THEN gd.total_engagement ELSE 0

Share(data, key, l) ==
    IF l \in DOMAIN data[key] THEN data[key][l].percentage ELSE 0

Clamped(x) == IF x < 0 THEN 0 ELSE IF x > 10000 THEN 10000 ELSE x

Abs(x) == IF x < 0 THEN -x ELSE x

\* the tiers of the engagement score above an average of 50
EngagementTiers(g, te, tp) ==
    /\ te >= 200 * tp => g = 1000
    /\ (100 * tp <= te /\ te < 200 * tp) => g = 750
    /\ (50 * tp <= te /\ te < 100 * tp) => g = 500

\* C15 as stated: the engagement sub-score is 100 for avg >= 200, 75 for
\* 100 <= avg < 200, 50 for 50 <= avg < 100 and avg / 50 * 50 for avg < 50,
\* avg being total_engagement / total_posts and 0 without posts.
C15_EngagementScoreIsExactlyLinearUnderFifty ==
    (Scored /\ engagement_data # EmptyDict) =>
        LET tp == PostsOf(engagement_data)
            te == EngagementOf(engagement_data)
            g == scores.engagement_score
        IN  IF tp = 0 THEN g = 0
            ELSE /\ EngagementTiers(g, te, tp)
                 /\ te < 50 * tp => g * tp = 10 * te

\* C15: the engagement sub-score is 100 for avg >= 200 (exactly 100 at 200),
\* 75 for 100 <= avg < 200, 50 for 50 <= avg < 100 (exactly 50 at 50), and
\* for avg < 50 it is avg / 50 * 50 rounded to one decimal; avg is
\* total_engagement / total_posts, and 0 without posts.
C15_EngagementScoreTiers ==
    (Scored /\ engagement_data # EmptyDict) =>
        LET tp == PostsOf(engagement_data)
            te == EngagementOf(engagement_data)
            g == scores.engagement_score
        IN  IF tp = 0 THEN g = 0
            ELSE /\ EngagementTiers(g, te, tp)
                 /\ te < 50 * tp => 2 * Abs(g * tp - 10 * te) <= tp

\* an average of exactly 200 scored 100 and, in another call, one of
\* exactly 50 scored 50: here the first
C15_Witness ==
    /\ Scored
    /\ engagement_data # EmptyDict
    /\ PostsOf(engagement_data) > 1
    /\ EngagementOf(engagement_data) = 200 * PostsOf(engagement_data)
    /\ scores.engagement_score = 1000

SentimentExact ==
    Clamped(Share(sentiment_data, "sentiment_distribution", "positive")
            - Share(sentiment_data, "sentiment_distribution", "negative") + 5000)

EmotionExact ==
    Clamped(Share(emotion_data, "emotion_distribution", "joy")
            - (Share(emotion_data, "emotion_distribution", "anger")
               + Share(emotion_data, "emotion_distribution", "sadness")
               + Share(emotion_data, "emotion_distribution", "disgust"))
            + 5000)

HasSentiment == sentiment_data # EmptyDict

HasEmotion == emotion_data # EmptyDict

\* C16 as stated: the sentiment sub-score equals positive% - negative% + 50
\* clamped to [0, 100] and the emotion sub-score equals
\* joy% - (anger% + sadness% + disgust%) + 50 clamped to [0, 100], an absent
\* label counting 0%.
C16_SubScoresAreExactlyTheClampedDifference ==
    Scored =>
        /\ HasSentiment => 10 * scores.sentiment_score = SentimentExact
        /\ HasEmotion => 10 * scores.emotion_score = EmotionExact

\* C16: the sentiment sub-score is positive% - negative% + 50 clamped to
\* [0, 100] and the emotion sub-score joy% - (anger% + sadness% + disgust%)
\* + 50 clamped to [0, 100], each rounded to one decimal, an absent label
\* counting 0%; 60% positive and 40% negative give 70.
C16_SubScoresAreTheClampedDifferenceRounded ==
    Scored =>
        /\ HasSentiment => 2 * Abs(10 * scores.sentiment_score - SentimentExact) <= 10
        /\ HasEmotion => 2 * Abs(10 * scores.emotion_score - EmotionExact) <= 10

\* 60% positive and 40% negative were scored 70
C16_Witness ==
    /\ Scored
    /\ HasSentiment
    /\ Share(sentiment_data, "sentiment_distribution", "positive") = 6000
    /\ Share(sentiment_data, "sentiment_distribution", "negative") = 4000
    /\ scores.sentiment_score = 700

\* the tier of a score given in tenths
Tier(s) ==
    IF s >= 800 THEN "Excellent"
    ELSE IF s >= 600 THEN "Good"
    ELSE IF s >= 400 THEN "Fair"
    ELSE "Poor"

\* C17: the reported overall_score is the 0.35 / 0.35 / 0.30 weighted sum of
\* the reported sub-scores rounded to one decimal, and the reported rating
\* is the tier of that reported overall_score: Excellent from 80, Good from
\* 60, Fair from 40, Poor below.
C17_RatingIsTierOfReportedOverall ==
    Scored =>
        /\ 2 * Abs(100 * scores.overall_score
                   - (35 * scores.sentiment_score + 35 * scores.emotion_score
                      + 30 * scores.engagement_score)) <= 100
        /\ scores.rating = Tier(scores.overall_score)

\* The first half of C17, which holds: the overall score is the weighted
\* sum of the reported sub-scores rounded to one decimal.
C17_OverallIsWeightedSumRounded ==
    Scored =>
        2 * Abs(100 * scores.overall_score
                - (35 * scores.sentiment_score + 35 * scores.emotion_score
                   + 30 * scores.engagement_score)) <= 100


-----------------------------------------------------------------------------
(* C18, C19: text normalization *)

\* C18: the normalization of each engine (sentiment, emotion, topic) is
\* idempotent: preprocess_text applied to its own output returns that output.
C18_NormalizationIsIdempotent ==
    applied >= 2 => doc = before

\* The normalizers of the sentiment and topic engines are idempotent on the
\* texts of Texts3.
C18_SentimentAndTopicNormalizationIdempotent ==
    (applied >= 2 /\ engine \in {"sentiment", "topic"}) => doc = before

\* the stopword set of an engine, as its code builds it
StopwordsOf(eng) ==
    CASE eng = "sentiment" -> sentiment_stopwords_id
      [] eng = "topic" -> topic_stopwords_id
      [] OTHER -> {}

\* C19: in the output of each engine's normalization every whitespace-separated
\* token is longer than 2 characters and is not in the stopword set, and the
\* tokens are joined by single spaces.
C19_TokensAreLongAndNotStopwords ==
    applied >= 1 =>
        /\ \A i \in 1..Len(Split(doc)) :
               /\ Len(Split(doc)[i]) > 2
               /\ Str(Split(doc)[i]) \notin StopwordsOf(engine)
        /\ doc = Join(Split(doc))

\* The words written in the stopword list of the sentiment engine,
\* sentiment_processor.py:159-174, each taken as a word of its own.
ListedSentimentStopwords ==
    (sentiment_stopwords_id \ {"vionideh", "ataskontol"})
        \cup {"vioni", "deh", "atas", "kontol"}

\* The output of the sentiment normalization holds none of the words written
\* in its stopword list.
C19_SentimentDropsListedStopwords ==
    (applied >= 1 /\ engine = "sentiment") =>
        \A i \in 1..Len(Split(doc)) : Str(Split(doc)[i]) \notin ListedSentimentStopwords

\* The topic normalization does what C19 says.
C19_TopicTokensAreLongAndNotStopwords ==
    (applied >= 1 /\ engine = "topic") => C19_TokensAreLongAndNotStopwords


-----------------------------------------------------------------------------
(* C20: what the sentiment labels of a batch depend on *)

\* C20: the labels analyze_dataframe gives a batch are a function of the batch
\* and of the artifacts on storage at startup only, whatever batches were
\* analysed before: the vectorizer a batch is transformed with at :288 is the
\* one loaded at startup or one fitted on that batch, never one fitted on
\* another batch.
C20_LabelsDependOnBatchAndStartupArtifactsOnly ==
    [][\A r \in Requests :
          (pc[r] = "transform" /\ strategy'[r] = "model" /\ batch[r] # "empty")
              => vectorizer \in {start.vec, batch[r]}]_vars

\* With the trained vectorizer on storage at startup every batch that the
\* classifier labels is transformed with that vectorizer.
C20_TrainedVectorizerIsTheOnlyOneUsed ==
    [][\A r \in Requests :
          (start.vec = "trained" /\ pc[r] = "transform" /\ strategy'[r] = "model")
              => vectorizer = "trained"]_vars


-----------------------------------------------------------------------------
(* C21: the peak-hours insight of the recommendations operation *)

\* the categories of the insights of a response
InsightCategories ==
    {response.insights[i].category : i \in 1..Len(response.insights)}

\* C21: whenever the activity-clustering output handed to the synthesizer by
\* the recommendations operation holds at least one peak range, the insights
\* of the response hold the peak-hours entry.
C21_PeakRangesGiveTimingInsight ==
    (/\ response # NoResponse
     /\ "insights" \in DOMAIN response
     /\ "peak" \notin failures
     /\ "peak_ranges" \in DOMAIN peak_hours_data
     /\ peak_hours_data.peak_ranges # << >>)
        => "Timing" \in InsightCategories

\* No clustering output of get_peak_activity_hours carries the key
\* "peak_hours" that _generate_insights and _analyze_timing read.
C21_ClusteringOutputHasNoPeakHoursKey ==
    "peak_hours" \notin DOMAIN peak_hours_data


-----------------------------------------------------------------------------
(* C22: the mean activity of a peak range *)

\* the per-hour reply counts of the hours of a cluster, and their sum
CountsOfCluster(c) ==
    SelectSeq(peak.scatter_data.points, LAMBDA p : p.cluster = c)

RECURSIVE SumCounts(_)
SumCounts(ps) == IF ps = << >> THEN 0 ELSE Head(ps).count + SumCounts(Tail(ps))

\* the mean of the per-hour reply counts of a cluster, cut to an integer
MeanActivity(c) == SumCounts(CountsOfCluster(c)) \div Len(CountsOfCluster(c))

\* C22: the avg_activity of the peak range of each non-outlier cluster is the
\* mean of the per-hour reply counts of the hours of that cluster, and
\* peak_ranges is in non-increasing order of that mean.
C22_AvgActivityIsMeanOfHourCounts ==
    (peak # NoPeak /\ "peak_ranges" \in DOMAIN peak) =>
        LET ranges == peak.peak_ranges
        IN  /\ \A i \in 1..Len(ranges) :
                   ranges[i].avg_activity = MeanActivity(ranges[i].cluster_id)
            /\ \A i \in 1..(Len(ranges) - 1) :
                   MeanActivity(ranges[i].cluster_id)
                       >= MeanActivity(ranges[i + 1].cluster_id)

\* What the code reports: avg_activity is the mean of the hour values of the
\* cluster cut to an integer, and peak_ranges is in non-increasing order of it.
C22_AvgActivityIsMeanOfHourValues ==
    (peak # NoPeak /\ "peak_ranges" \in DOMAIN peak) =>
        LET ranges == peak.peak_ranges
            Hours(c) == [i \in 1..Len(CountsOfCluster(c)) |-> CountsOfCluster(c)[i].hour]
        IN  /\ \A i \in 1..Len(ranges) :
                   ranges[i].avg_activity
                       = SumSeq(Hours(ranges[i].cluster_id))
                             \div Len(Hours(ranges[i].cluster_id))
            /\ \A i \in 1..(Len(ranges) - 1) :
                   ranges[i].avg_activity >= ranges[i + 1].avg_activity


-----------------------------------------------------------------------------
(* C23: the thresholds of the negative-sentiment, anger and fear rules *)

\* the share of a label in a report, in hundredths of a percent; 0 for a
\* report without the distribution or a distribution without the label
RuleShare(data, key, l) ==
    IF data # EmptyDict /\ key \in DOMAIN data /\ l \in DOMAIN data[key]
    THEN data[key][l].percentage
    ELSE 0

\* the recommendations of the result with one of the given titles
Emitted(titles) ==
    SelectSeq(result.recommendations, LAMBDA rec : rec.title \in titles)

NegativeRule == {"High Negative Sentiment Detected", "Moderate Negative Sentiment"}

\* C23: the negative-sentiment rule emits at most one recommendation, critical
\* above 40%, high above 25% and up to 40%, none up to 25%; the anger rule
\* emits a critical recommendation exactly above 15% and the fear rule a high
\* one exactly above 5%, whatever the other rules emit.
C23_RuleThresholds ==
    (result # NoResult /\ "recommendations" \in DOMAIN result) =>
        LET negative == RuleShare(sentiment_data, "sentiment_distribution", "negative")
            anger == RuleShare(emotion_data, "emotion_distribution", "anger")
            fear == RuleShare(emotion_data, "emotion_distribution", "fear")
            neg == Emitted(NegativeRule)
            ang == Emitted({"High Anger Levels Detected"})
            fea == Emitted({"Customer Anxiety Detected"})
        IN  /\ Len(neg) <= 1
            /\ negative > 4000 =>
                   Len(neg) = 1 /\ neg[1].priority = "critical"
                   /\ neg[1].category = "Sentiment"
            /\ (negative > 2500 /\ negative <= 4000) =>
                   Len(neg) = 1 /\ neg[1].priority = "high"
                   /\ neg[1].category = "Sentiment"
            /\ negative <= 2500 => neg = << >>
            /\ Len(ang) = (IF anger > 1500 THEN 1 ELSE 0)
            /\ \A i \in 1..Len(ang) :
                   ang[i].priority = "critical" /\ ang[i].category = "Emotion"
            /\ Len(fea) = (IF fear > 500 THEN 1 ELSE 0)
            /\ \A i \in 1..Len(fea) :
                   fea[i].priority = "high" /\ fea[i].category = "Emotion"

\* a result made from a negative share of exactly 40%, which the negative
\* rule answers by a high recommendation, with anger above 15% and fear at 5%
C23_Witness ==
    /\ result # NoResult
    /\ "recommendations" \in DOMAIN result
    /\ RuleShare(sentiment_data, "sentiment_distribution", "negative") = 4000
    /\ RuleShare(emotion_data, "emotion_distribution", "anger") = 1501
    /\ RuleShare(emotion_data, "emotion_distribution", "fear") = 500
    /\ Len(Emitted(NegativeRule)) = 1
    /\ Emitted(NegativeRule)[1].priority = "high"
    /\ Len(Emitted({"High Anger Levels Detected"})) = 1
    /\ Emitted({"Customer Anxiety Detected"}) = << >>


-----------------------------------------------------------------------------
(* C24, C29: the active dataset *)

Reports5 == {"sentiment", "emotion", "topics", "engagement", "peak"}

\* C24: after select_dataset(X) has succeeded, and until the next successful
\* select_dataset or delete of X, each of the five reports the
\* recommendations operation feeds to the synthesizer is computed from the
\* files of dataset X.
C24_ReportsComeFromSelectedDataset ==
    (sources # NoSources /\ "error" \notin DOMAIN sources
     /\ sources.selected # "none")
        => \A k \in Reports5 : sources[k] = sources.selected

\* What the code does: the sentiment, emotion and topic reports come from the
\* selected dataset, the engagement statistics and the peak hours from the
\* default dataset.
C24_OnlyTextReportsComeFromSelectedDataset ==
    (sources # NoSources /\ "error" \notin DOMAIN sources
     /\ sources.selected # "none")
        => /\ \A k \in {"sentiment", "emotion", "topics"} :
                  sources[k] = sources.selected
           /\ \A k \in {"engagement", "peak"} : sources[k] = "default"

\* C29: after any sequence and any interleaving of upload_dataset,
\* select_dataset and delete_dataset requests, the active dataset is "default"
\* or the name of a dataset directory that exists with its tweet file and its
\* replies file.
C29_ActiveDatasetExists ==
    (\A r \in DataRequests : dpc[r] = "idle") =>
        \/ ACTIVE_DATASET = "default"
        \/ Complete(datasets[ACTIVE_DATASET])


\* the rows of tweet_df whose Date cell is a date of the day numbered k
\* (Monday = 1)
RowsOfDay(k) ==
    SelectSeq(tweet_df,
              LAMBDA p : parse_iso_date(p.Date) # NoTimestamp
                         /\ dayofweek(parse_iso_date(p.Date)) + 1 = k)

RECURSIVE SumEngagement(_)
SumEngagement(rows) ==
    IF rows = << >> THEN 0
    ELSE RowEngagement(Head(rows)) + SumEngagement(Tail(rows))

RECURSIVE SumDays(_, _)
SumDays(totals, k) ==
    IF k = 0 THEN 0 ELSE totals[day_names[k]] + SumDays(totals, k - 1)

\* C25: every post with a parsable date adds its likes + replies + retweets
\* exactly once to the total of its weekday, so the seven totals sum to the
\* engagement of all posts with a parsable date, also when posts share a
\* timestamp.
C25_EachPostCountedOnce ==
    (answer.op = "get_engagement_by_day" /\ tweet_df # << >>)
        => /\ \A k \in 1..7 :
                  answer.value[day_names[k]] = SumEngagement(RowsOfDay(k))
           /\ SumDays(answer.value, 7)
                  = SumEngagement(SelectSeq(tweet_df,
                        LAMBDA p : parse_iso_date(p.Date) # NoTimestamp))

\* the number of posts that have the Date cell of post p
SharingDate(p) ==
    Cardinality({i \in 1..Len(tweet_df) : tweet_df[i].Date = p.Date})

RECURSIVE SumRepeated(_)
SumRepeated(rows) ==
    IF rows = << >> THEN 0
    ELSE SharingDate(Head(rows)) * RowEngagement(Head(rows))
         + SumRepeated(Tail(rows))

\* What the code does: a post adds to its weekday the engagement of every
\* post that has the same Date cell, so the engagement of a post whose
\* timestamp is shared by n posts is counted n times.
C25_PostCountedOncePerPostOfItsTimestamp ==
    (answer.op = "get_engagement_by_day" /\ tweet_df # << >>)
        => \A k \in 1..7 :
               answer.value[day_names[k]] = SumRepeated(RowsOfDay(k))


\* C26: extract_id_from_permalink and get_tweet_id_from_permalink give the
\* same identifier, the trailing segment of the path, for the permalink of
\* every post the aggregations read.
C26_BothExtractorsAgree ==
    answer.op \in {"get_engagement_by_type", "topic_engagement"}
        => \A i \in 1..Len(tweet_df) :
               extract_id_from_permalink(tweet_df[i].Permalink)
                   = get_tweet_id_from_permalink(tweet_df[i].Permalink)

\* a permalink that ends with "/status/" and digits
PlainPermalink(p) ==
    /\ p # NaN
    /\ \E k \in 1..Len(p) :
          /\ k > 8
          /\ SubSeq(p, k - 8, k - 1) = "/status/"
          /\ IsInt(SubSeq(p, k, Len(p)))

\* What the code does: the two agree on the permalinks that end with
\* "/status/" and digits, and on an empty cell.
C26_ExtractorsAgreeOnPlainPermalinks ==
    answer.op \in {"get_engagement_by_type", "topic_engagement"}
        => \A i \in 1..Len(tweet_df) :
               LET p == tweet_df[i].Permalink
               IN  (PlainPermalink(p) \/ p = NaN)
                       <=> extract_id_from_permalink(p)
                               = get_tweet_id_from_permalink(p)


\* C27: model_loaded is true only while the classifier and the vectorizer
\* are both not None, and once it is true no step makes it false again.
C27_ModelLoadedIsSoundAndStays ==
    [][/\ model_loaded => (model # "None" /\ vectorizer # "None")
       /\ model_loaded' => (model' # "None" /\ vectorizer' # "None")
       /\ model_loaded => model_loaded']_vars

\* the flag was set by a lazy fit, and a later call has raised and was
\* labelled by the lexicon with the flag still set
C27_Witness ==
    /\ model_loaded
    /\ ~LoadedFlag(start.model, start.vec)
    /\ model # "None" /\ vectorizer # "None"
    /\ \E r \in Requests : pc[r] = "idle" /\ raised[r]


\* the requests whose analysis has been reported
ReportedCalls == {r \in Requests : callNo[r] > 0 /\ Reported(r)}

\* C28: sentiment_method in the metadata of a report names the strategy that
\* labelled the rows of that report: 'LinearSVM' for the classifier,
\* 'rule_based_fallback' for the lexicon, also when the lexicon was used
\* because fit or predict raised.
C28_MethodNamesTheStrategyUsed ==
    \A r \in ReportedCalls :
        sentiment_method[r].sentiment_method
            = IF sentiment_method[r].labels = "model" THEN "LinearSVM"
              ELSE "rule_based_fallback"

\* What the code does: rows labelled by the classifier are reported as
\* 'LinearSVM', and a report that says 'rule_based_fallback' has rows
\* labelled by the lexicon; rows labelled by the lexicon after transform or
\* predict raised on a loaded model are reported as 'LinearSVM'.
C28_MethodFollowsModelLoaded ==
    \A r \in ReportedCalls :
        /\ sentiment_method[r].labels = "model"
               => sentiment_method[r].sentiment_method = "LinearSVM"
        /\ (sentiment_method[r].labels = "fallback"
            /\ sentiment_method[r].sentiment_method = "LinearSVM")
               => model_loaded


\* the engine that made the report
ReportEngine ==
    IF "sentiment_distribution" \in DOMAIN report THEN "sentiment" ELSE "emotion"

\* the rows whose normalized text is not empty
RowsWithText ==
    {i \in 1..Len(full_text) :
        (IF ReportEngine = "sentiment"
         THEN sentiment_preprocess_text(full_text[i])
         ELSE emotion_preprocess_text(full_text[i])) # << >>}

RECURSIVE SumCountsOf(_, _)
SumCountsOf(dist, ls) ==
    IF ls = {} THEN 0
    ELSE LET l == CHOOSE x \in ls : TRUE
         IN  dist[l].count + SumCountsOf(dist, ls \ {l})

\* C30: total_analyzed is the number of rows whose normalized text is not
\* empty, for the sentiment and for the emotion engine; each of these rows
\* has exactly one label, and a row whose normalized text is empty has no
\* label and is counted in no class.
C30_TotalIsRowsWithText ==
    report # NoReport
        => /\ report.total_analyzed = Cardinality(RowsWithText)
           /\ Len(analysed) = Cardinality(RowsWithText)
           /\ {analysed[j].index : j \in 1..Len(analysed)} = RowsWithText
           /\ \A j \in 1..Len(analysed) :
                  analysed[j].label \in
                      (IF ReportEngine = "sentiment" THEN SentimentLabels
                       ELSE EmotionLabels)
           /\ SumCountsOf(ReportDistribution, DOMAIN ReportDistribution)
                  = Cardinality(RowsWithText)

\* a dataframe of two rows, one kept and one dropped, has been reported
C30_Witness ==
    /\ report # NoReport
    /\ Len(full_text) = 2
    /\ Cardinality(RowsWithText) = 1
    /\ Len(analysed) = 1
    /\ report.total_analyzed = 1

====
